---- MODULE Spec2Model ----
(***************************************************************************)
(* A model of the GCP billing scripts: the two viewer scripts              *)
(* (gcp-bill-viewer.py, gcpbill.py) and the diagnostic script              *)
(* (check_bigquery.py).                                                    *)
(*                                                                         *)
(* Strings whose characters matter (billing account ids, table ids) are    *)
(* sequences of one-character strings; dataset ids and project ids are     *)
(* only ever compared for equality and are TLA+ strings.  None (Python)    *)
(* is the empty tuple, so that "if not x" is Len(x) = 0.                    *)
(***************************************************************************)
EXTENDS Integers, Sequences, FiniteSets, TLC

VARIABLES
    datasets,   \* the provider: the project's datasets in listing order, each with its tables
    d_in,       \* detect_bigquery_export: the arguments of the call
    d_out,      \* detect_bigquery_export: how the call ended
    d_pc,       \* "call" before the call, "done" after it, "idle" when not under test
    c_in,       \* the category expression: the row and the --group-by value
    c_out,      \* the category expression: its value on the row
    c_pc,       \* "call" before the evaluation, "done" after it, "idle" when not under test
    table_rows, \* the provider: the rows of the export table
    q_in,       \* the cost query: script, dates, project filter, --group-by value
    q_out,      \* the cost query: the query built, the rows it yields, the costs list
    q_pc,       \* "call" before the query, "done" after it, "idle" when not under test
    diag,       \* check_bigquery.py: the state of the diagnostic run
    run,        \* the viewer scripts: the state of one run of main()
    setup       \* setup_bigquery_export.py: the state of one run of main()

detectVars == <<datasets, d_in, d_out, d_pc>>

categoryVars == <<c_in, c_out, c_pc>>

queryVars == <<table_rows, q_in, q_out, q_pc>>

vars == <<detectVars, categoryVars, queryVars, diag, run, setup>>

(***************************************************************************)
(* Bounds of the provider's state.                                         *)
(***************************************************************************)
MaxDatasets == 2
MaxTables == 2

None == <<>>

\* The credentials' default project (self.project_id).
project_id == "proj"

(***************************************************************************)
(* Strings.                                                                *)
(***************************************************************************)
\* str.replace for one-character old and new.
Replace(s, old, new) == [i \in 1..Len(s) |-> IF s[i] = old THEN new ELSE s[i]]

\* Python's "p in t" for strings.
Contains(t, p) == \E i \in 0..(Len(t) - Len(p)) : SubSeq(t, i + 1, i + Len(p)) = p

gcp_billing_export_v1_ ==
    <<"g","c","p","_","b","i","l","l","i","n","g","_","e","x","p","o","r","t","_","v","1","_">>

gcp_billing_export_resource_v1_ ==
    <<"g","c","p","_","b","i","l","l","i","n","g","_","e","x","p","o","r","t","_",
      "r","e","s","o","u","r","c","e","_","v","1","_">>

\* Billing account ids, scaled down from XXXXXX-XXXXXX-XXXXXX.
AccountIds == { <<"A","-","B">>, <<"A","-","C">> }

\* Table ids a dataset may hold: the standard and the detailed (resource) export
\* of account A-B, and the standard export of account A-C.
TableIds ==
    { gcp_billing_export_v1_ \o <<"A","_","B">>,
      gcp_billing_export_resource_v1_ \o <<"A","_","B">>,
      gcp_billing_export_v1_ \o <<"A","_","C">> }

DatasetIds == {"billing_export", "billing", "analytics"}

Distinct(s) == \A i, j \in 1..Len(s) : i # j => s[i] # s[j]

SeqsUpTo(S, n) == UNION { [1..k -> S] : k \in 0..n }

TableListings == { s \in SeqsUpTo(TableIds, MaxTables) : Distinct(s) }

DatasetRecs == [dataset_id : DatasetIds, tables : TableListings]

\* Dataset ids are unique in a project, table ids in a dataset.
Projects ==
    { s \in SeqsUpTo(DatasetRecs, MaxDatasets) :
        \A i, j \in 1..Len(s) : i # j => s[i].dataset_id # s[j].dataset_id }

(***************************************************************************)
(* detect_bigquery_export.                                                 *)
(***************************************************************************)
\* Mutant of clean_id: the id is used as it was typed.
clean_id_unchanged(billing_account_id) == billing_account_id

\* clean_id = billing_account_id.replace('-', '_').
clean_id(billing_account_id) == Replace(billing_account_id, "-", "_")

common_patterns(billing_account_id) ==
    << gcp_billing_export_v1_ \o clean_id(billing_account_id),
       gcp_billing_export_resource_v1_ \o clean_id(billing_account_id) >>

common_datasets == {"billing_export", "billing_data", "billing"}

\* Mutant of FirstMatch: the detailed (resource) export pattern is not tried.
FirstPatternOnly(tables, patterns) ==
    LET hits == { i \in 1..Len(tables) : Contains(tables[i], patterns[1]) }
    IN  IF hits = {} THEN None
        ELSE tables[CHOOSE i \in hits : \A j \in hits : i <= j]

\* "for table in tables: for pattern in common_patterns: if pattern in
\* table.table_id: return ...": the first table, in listing order, whose id
\* contains one of the patterns; None when there is none.
FirstMatch(tables, patterns) ==
    LET hits == { i \in 1..Len(tables) :
                    \E k \in 1..Len(patterns) : Contains(tables[i], patterns[k]) }
    IN  IF hits = {} THEN None
        ELSE tables[CHOOSE i \in hits : \A j \in hits : i <= j]

\* One "for dataset in datasets" loop of detect_bigquery_export, from dataset i
\* on: the known-name pass (onlyKnown) lists the tables of the datasets named in
\* common_datasets only, the fallback pass those of every dataset.  calls counts
\* the provider calls made so far; the failAt-th call of the run raises
\* (failAt = 0: none does).  dbg: the pass prints its debug lines.
\* Ends "return" (a match), "raise" (list_tables failed) or "end" (loop over).
RECURSIVE ScanPass(_, _, _, _, _, _, _, _)
ScanPass(ds, i, onlyKnown, patterns, calls, failAt, dbg, printed) ==
    IF i > Len(ds)
    THEN [kind |-> "end", value |-> None, calls |-> calls, printed |-> printed]
    ELSE
      LET d  == ds[i]
          p1 == IF dbg THEN Append(printed, "Debug: Checking dataset") ELSE printed
      IN  IF onlyKnown /\ d.dataset_id \notin common_datasets
          THEN ScanPass(ds, i + 1, onlyKnown, patterns, calls, failAt, dbg, p1)
          ELSE IF calls + 1 = failAt
          THEN [kind |-> "raise", value |-> None, calls |-> calls + 1, printed |-> p1]
          ELSE
            LET m  == FirstMatch(d.tables, patterns)
                p2 == IF dbg THEN Append(p1, "Debug: Found tables") ELSE p1
            IN  IF m # None
                THEN [kind |-> "return", value |-> <<project_id, d.dataset_id, m>>,
                      calls |-> calls + 1, printed |-> p2]
                ELSE ScanPass(ds, i + 1, onlyKnown, patterns, calls + 1, failAt, dbg, p2)

\* Mutant of DetectTry: the fallback scan alone, without the known-name pass.
DetectTryFallbackOnly(script, ds, billing_account_id, verbose, failAt) ==
    LET patterns == common_patterns(billing_account_id)
    IN  IF failAt = 1
        THEN [kind |-> "raise", value |-> None, calls |-> 1, printed |-> <<>>]
        ELSE
          LET deep == ScanPass(ds, 1, FALSE, patterns, 1, failAt, FALSE, <<>>)
          IN  IF deep.kind # "end" THEN deep
              ELSE [kind |-> "return", value |-> None, calls |-> deep.calls,
                    printed |-> <<>>]

\* The try block: list_datasets, the known-name pass, then the fallback pass.
\* gcpbill.py prints debug lines in the known-name pass; gcp-bill-viewer.py
\* prints none.
DetectTry(script, ds, billing_account_id, verbose, failAt) ==
    LET patterns == common_patterns(billing_account_id)
        dbg      == verbose /\ script = "gcpbill"
        p0       == IF dbg THEN <<"Debug: Searching for billing export table">> ELSE <<>>
    IN  IF failAt = 1
        THEN [kind |-> "raise", value |-> None, calls |-> 1, printed |-> <<>>]
        ELSE
          LET known == ScanPass(ds, 1, TRUE, patterns, 1, failAt, dbg, p0)
          IN  IF known.kind # "end" THEN known
              ELSE
                LET deep == ScanPass(ds, 1, FALSE, patterns, known.calls, failAt,
                                     FALSE, known.printed)
                IN  IF deep.kind # "end" THEN deep
                    ELSE [kind |-> "return", value |-> None, calls |-> deep.calls,
                          printed |-> IF dbg
                                      THEN Append(deep.printed,
                                                  "Debug: No matching billing export table found")
                                      ELSE deep.printed]

\* Mutant of DetectExcept: the handler is reached in verbose mode only.
DetectExceptVerboseOnly(body, verbose) ==
    IF body.kind = "raise" /\ verbose
    THEN [kind |-> "return", value |-> None, calls |-> body.calls, failed |-> TRUE,
          printed |-> Append(body.printed, "Debug: Error during detection")]
    ELSE [kind |-> body.kind, value |-> body.value, calls |-> body.calls,
          failed |-> body.kind = "raise", printed |-> body.printed]

\* "except Exception as e: if verbose: print(...); pass" and "return None".
\* failed records that a listing raised inside the try block.
DetectExcept(body, verbose) ==
    IF body.kind = "raise"
    THEN [kind |-> "return", value |-> None, calls |-> body.calls, failed |-> TRUE,
          printed |-> IF verbose
                      THEN Append(body.printed, "Debug: Error during detection")
                      ELSE body.printed]
    ELSE [kind |-> body.kind, value |-> body.value, calls |-> body.calls,
          failed |-> FALSE, printed |-> body.printed]

detect_bigquery_export(script, ds, billing_account_id, verbose, failAt) ==
    DetectExcept(DetectTry(script, ds, billing_account_id, verbose, failAt), verbose)

\* The most provider calls one detection makes: list_datasets, and list_tables
\* once per dataset in each pass.
MaxDetectCalls == 1 + 2 * MaxDatasets

(***************************************************************************)
(* SpecDetect: detect_bigquery_export of either script, called once with   *)
(* any account id and verbose flag on any project, any one of its provider *)
(* calls failing or none.                                                  *)
(***************************************************************************)
Pending == [kind |-> "pending", value |-> None, calls |-> 0, failed |-> FALSE,
            printed |-> <<>>]

DetectIdle ==
    /\ datasets = <<>>
    /\ d_in = <<>>
    /\ d_out = Pending
    /\ d_pc = "idle"

CategoryIdle ==
    /\ c_in = <<>>
    /\ c_out = <<>>
    /\ c_pc = "idle"

QueryIdle ==
    /\ table_rows = <<>>
    /\ q_in = <<>>
    /\ q_out = <<>>
    /\ q_pc = "idle"

DiagIdle == diag = <<>>

RunIdle == run = <<>>

SetupIdle == setup = <<>>

DetectInit ==
    /\ CategoryIdle
    /\ QueryIdle
    /\ DiagIdle
    /\ RunIdle
    /\ SetupIdle
    /\ datasets \in Projects
    /\ d_in \in [script : {"none"}, billing_account_id : AccountIds, verbose : BOOLEAN]
    /\ d_out = Pending
    /\ d_pc = "call"

CallDetect(script) ==
    /\ d_pc = "call"
    /\ \E failAt \in 0..MaxDetectCalls :
          d_out' = detect_bigquery_export(script, datasets, d_in.billing_account_id,
                                          d_in.verbose, failAt)
    /\ d_in' = [d_in EXCEPT !.script = script]
    /\ d_pc' = "done"
    /\ UNCHANGED <<datasets, categoryVars, queryVars, diag, run, setup>>

ViewerDetect == CallDetect("viewer")

GcpbillDetect == CallDetect("gcpbill")

DetectNext == ViewerDetect \/ GcpbillDetect

SpecDetect == DetectInit /\ [][DetectNext]_vars

\* What the claims call an export table of an account: its id contains
\* 'gcp_billing_export_v1_<id>' or 'gcp_billing_export_resource_v1_<id>', the id
\* with every '-' replaced by '_'.
IsExportTable(account, t) ==
    LET id == [i \in 1..Len(account) |-> IF account[i] = "-" THEN "_" ELSE account[i]]
    IN  \/ Contains(t, gcp_billing_export_v1_ \o id)
        \/ Contains(t, gcp_billing_export_resource_v1_ \o id)

\* The fully qualified paths of the account's export tables in the project.
ExportPaths(account) ==
    UNION { { <<project_id, datasets[i].dataset_id, datasets[i].tables[j]>> :
                j \in { k \in 1..Len(datasets[i].tables) :
                          IsExportTable(account, datasets[i].tables[k]) } } :
            i \in 1..Len(datasets) }

KnownNames == {"billing_export", "billing_data", "billing"}

\* The positions, in listing order, of the known-name datasets that hold an
\* export table of the account.
KnownWithExport(account) ==
    { i \in 1..Len(datasets) :
        /\ datasets[i].dataset_id \in KnownNames
        /\ \E j \in 1..Len(datasets[i].tables) : IsExportTable(account, datasets[i].tables[j]) }

\* C1: when every listing succeeds, detect_bigquery_export of either script
\* returns the fully qualified path '<default project>.<dataset>.<table>' of a
\* listed export table of the account whenever one exists in any dataset, and
\* None when none exists.
C1_DetectReturnsExportOrNone ==
    (d_pc = "done" /\ ~d_out.failed) =>
        /\ d_out.kind = "return"
        /\ IF ExportPaths(d_in.billing_account_id) = {}
           THEN d_out.value = None
           ELSE d_out.value \in ExportPaths(d_in.billing_account_id)

\* C1's case: account A-B, a table gcp_billing_export_v1_A_B, and the call
\* returned that table's path.
C1_Witness ==
    /\ d_pc = "done"
    /\ ~d_out.failed
    /\ d_in.billing_account_id = <<"A","-","B">>
    /\ d_out.value # None
    /\ d_out.value[3] = gcp_billing_export_v1_ \o <<"A","_","B">>

\* C2: the known dataset names are searched first.  A returned path lies in the
\* first known-name dataset (in listing order) that holds an export table of the
\* account whenever there is one, also when another dataset listed earlier
\* holds one; a path in a dataset of another name is returned only when no
\* known-name dataset holds one; and with every listing succeeding a path is
\* returned.
C2_KnownDatasetsFirst ==
    d_pc = "done" =>
        LET known == KnownWithExport(d_in.billing_account_id)
        IN  /\ (known # {} /\ ~d_out.failed) => d_out.value # None
            /\ (known # {} /\ d_out.value # None) =>
                  /\ d_out.value \in ExportPaths(d_in.billing_account_id)
                  /\ d_out.value[2] =
                        datasets[CHOOSE i \in known : \A j \in known : i <= j].dataset_id
            /\ (d_out.value # None /\ d_out.value[2] \notin KnownNames) => known = {}

\* C2's case: an export table in a dataset of another name is listed before a
\* known-name dataset that holds one, and the path returned is the latter's.
C2_Witness ==
    /\ d_pc = "done"
    /\ d_out.value # None
    /\ d_out.value[2] \in KnownNames
    /\ \E i, k \in 1..Len(datasets) :
          /\ i < k
          /\ datasets[i].dataset_id \notin KnownNames
          /\ \E j \in 1..Len(datasets[i].tables) :
                IsExportTable(d_in.billing_account_id, datasets[i].tables[j])
          /\ datasets[k].dataset_id = d_out.value[2]

\* C3: detect_bigquery_export never raises.  Whichever provider call fails
\* (list_datasets, or list_tables in the known-name pass or in the fallback
\* pass), with or without the verbose flag, the call returns, and returns None.
C3_DetectNeverRaises ==
    d_pc = "done" =>
        /\ d_out.kind = "return"
        /\ d_out.failed => d_out.value = None

\* C3's case: list_tables failed in the fallback pass of a call without the
\* verbose flag (more calls were made than list_datasets and one list_tables
\* per known-name dataset), and the call returned None.
C3_Witness ==
    /\ d_pc = "done"
    /\ d_out.failed
    /\ ~d_in.verbose
    /\ d_out.calls > 1 + Cardinality({ i \in 1..Len(datasets) :
                                        datasets[i].dataset_id \in KnownNames })
    /\ d_out.kind = "return"
    /\ d_out.value = None

(***************************************************************************)
(* The category expression of the cost query (gcp-bill-viewer.py           *)
(* _get_category_sql), evaluated on one row of the export table.  A SQL    *)
(* value that may be NULL is <<>> (NULL) or <<v>>.  Descriptions and label *)
(* values are sequences of characters.                                     *)
(***************************************************************************)
NULL == <<>>

UpperCase ==
    <<"A","B","C","D","E","F","G","H","I","J","K","L","M",
      "N","O","P","Q","R","S","T","U","V","W","X","Y","Z">>

LowerCase ==
    <<"a","b","c","d","e","f","g","h","i","j","k","l","m",
      "n","o","p","q","r","s","t","u","v","w","x","y","z">>

\* SQL LOWER().
LOWER(s) ==
    [i \in 1..Len(s) |->
        IF \E k \in 1..Len(UpperCase) : UpperCase[k] = s[i]
        THEN LowerCase[CHOOSE k \in 1..Len(UpperCase) : UpperCase[k] = s[i]]
        ELSE s[i]]

\* SQL "x LIKE '%p%'" for a pattern p without wildcards of its own.
LIKE(x, p) == Contains(x, p)

\* SQL COALESCE: the first argument that is not NULL, NULL when all are.
COALESCE(xs) ==
    LET nn == { i \in 1..Len(xs) : xs[i] # NULL }
    IN  IF nn = {} THEN NULL ELSE xs[CHOOSE i \in nn : \A j \in nn : i <= j]

\* The WHEN branches of sku_model_extraction, in order: <<pattern, model name>>.
sku_model_patterns ==
    << << <<"g","e","m","i","n","i"," ","1",".","5"," ","p","r","o">>,
          <<"G","e","m","i","n","i"," ","1",".","5"," ","P","r","o">> >>,
       << <<"g","e","m","i","n","i"," ","1",".","5"," ","f","l","a","s","h">>,
          <<"G","e","m","i","n","i"," ","1",".","5"," ","F","l","a","s","h">> >>,
       << <<"g","e","m","i","n","i"," ","p","r","o">>,
          <<"G","e","m","i","n","i"," ","P","r","o">> >>,
       << <<"g","e","m","i","n","i"," ","f","l","a","s","h">>,
          <<"G","e","m","i","n","i"," ","F","l","a","s","h">> >>,
       << <<"g","e","m","i","n","i"," ","u","l","t","r","a">>,
          <<"G","e","m","i","n","i"," ","U","l","t","r","a">> >>,
       << <<"c","l","a","u","d","e"," ","3",".","5"," ","s","o","n","n","e","t">>,
          <<"C","l","a","u","d","e"," ","3",".","5"," ","S","o","n","n","e","t">> >>,
       << <<"c","l","a","u","d","e"," ","3",".","5"," ","h","a","i","k","u">>,
          <<"C","l","a","u","d","e"," ","3",".","5"," ","H","a","i","k","u">> >>,
       << <<"c","l","a","u","d","e"," ","3"," ","o","p","u","s">>,
          <<"C","l","a","u","d","e"," ","3"," ","O","p","u","s">> >>,
       << <<"c","l","a","u","d","e"," ","3"," ","s","o","n","n","e","t">>,
          <<"C","l","a","u","d","e"," ","3"," ","S","o","n","n","e","t">> >>,
       << <<"c","l","a","u","d","e"," ","3"," ","h","a","i","k","u">>,
          <<"C","l","a","u","d","e"," ","3"," ","H","a","i","k","u">> >>,
       << <<"l","l","a","m","a">>,
          <<"L","l","a","m","a">> >> >>

goog_vertex_ai_model_id == "goog-vertex-ai-model-id"

vertex_ai == <<"v","e","r","t","e","x"," ","a","i">>

Vertex_AI_dash == <<"V","e","r","t","e","x"," ","A","I"," ","-"," ">>

\* (SELECT value FROM UNNEST(system_labels) WHERE key = 'goog-vertex-ai-model-id'
\* LIMIT 1): the value of the label with that key, NULL when there is none.
\* system_labels is a sequence of [key, value]; its keys are distinct.
system_label_model_extraction(row) ==
    LET hit == { i \in 1..Len(row.system_labels) :
                   row.system_labels[i].key = goog_vertex_ai_model_id }
    IN  IF hit = {} THEN NULL ELSE << row.system_labels[CHOOSE i \in hit : TRUE].value >>

\* CASE WHEN LOWER(sku.description) LIKE '%gemini 1.5 pro%' THEN 'Gemini 1.5 Pro'
\* ... ELSE NULL END: the model name of the first branch whose pattern matches.
sku_model_extraction(row) ==
    LET hit == { i \in 1..Len(sku_model_patterns) :
                   LIKE(LOWER(row.sku_description), sku_model_patterns[i][1]) }
    IN  IF hit = {} THEN NULL
        ELSE << sku_model_patterns[CHOOSE i \in hit : \A j \in hit : i <= j][2] >>

\* CASE WHEN LOWER(service.description) LIKE '%vertex ai%'
\*      THEN CONCAT('Vertex AI - ', sku.description) ELSE service.description END
service_fallback(row) ==
    IF LIKE(LOWER(row.service_description), vertex_ai)
    THEN << Vertex_AI_dash \o row.sku_description >>
    ELSE << row.service_description >>

\* Mutant of model_category: the SKU description is tried before the label.
model_category_sku_first(row) ==
    COALESCE(<< sku_model_extraction(row),
                system_label_model_extraction(row),
                service_fallback(row) >>)

\* group_by == 'model': COALESCE(label, SKU pattern, fallback).
model_category(row) ==
    COALESCE(<< system_label_model_extraction(row),
                sku_model_extraction(row),
                service_fallback(row) >>)

AI_ML_Services == <<"A","I","/","M","L"," ","S","e","r","v","i","c","e","s">>

Infrastructure_Other == <<"I","n","f","r","a","s","t","r","u","c","t","u","r","e"," ","&"," ","O","t","h","e","r">>

\* group_by == 'ai'.
ai_category(row) ==
    IF \/ system_label_model_extraction(row) # NULL
       \/ sku_model_extraction(row) # NULL
       \/ LIKE(LOWER(row.service_description), vertex_ai)
    THEN << AI_ML_Services >>
    ELSE << Infrastructure_Other >>

\* _get_category_sql(group_by) of gcp-bill-viewer.py, evaluated on a row.
get_category_sql(group_by, row) ==
    IF group_by = "model" THEN model_category(row)
    ELSE IF group_by = "ai" THEN ai_category(row)
    ELSE IF group_by = "project" THEN << row.project_name >>
    ELSE << row.service_description >>

(***************************************************************************)
(* SpecCategory: the category expression of gcp-bill-viewer.py applied to  *)
(* one row of the export table, for each --group-by value of the script.   *)
(***************************************************************************)
SkuDescriptions ==
    { <<"G","e","m","i","n","i"," ","1",".","5"," ","P","r","o"," ","I","n","p","u","t">>,
      <<"G","e","m","i","n","i"," ","P","r","o"," ","a","n","d"," ","L","l","a","m","a">>,
      <<"L","l","a","m","a"," ","w","i","t","h"," ","G","e","m","i","n","i"," ","1",".","5"," ","F","l","a","s","h">>,
      <<"G","E","M","I","N","I"," ","U","L","T","R","A">>,
      <<"O","n","l","i","n","e"," ","P","r","e","d","i","c","t","i","o","n">> }

ServiceDescriptions ==
    { <<"V","e","r","t","e","x"," ","A","I">>,
      <<"C","l","o","u","d"," ","V","E","R","T","E","X"," ","A","I"," ","A","P","I">>,
      <<"C","o","m","p","u","t","e"," ","E","n","g","i","n","e">> }

LabelValues ==
    { <<"g","e","m","i","n","i","-","x">>,
      <<>> }

\* system_labels of a row: at most the model-id label and one other label, in
\* either order.
SystemLabels ==
    LET other == [key |-> "compute.googleapis.com/cores", value |-> <<"2">>]
    IN  {<<>>, <<other>>}
        \cup { <<[key |-> goog_vertex_ai_model_id, value |-> v]>> : v \in LabelValues }
        \cup { <<other, [key |-> goog_vertex_ai_model_id, value |-> v]>> : v \in LabelValues }
        \cup { <<[key |-> goog_vertex_ai_model_id, value |-> v], other>> : v \in LabelValues }

CategoryRows ==
    [system_labels : SystemLabels, sku_description : SkuDescriptions,
     service_description : ServiceDescriptions, project_name : {<<"p","1">>}]

ViewerGroupBy == {"service", "project", "ai", "model"}

CategoryInit ==
    /\ c_in \in [row : CategoryRows, group_by : {"none"}]
    /\ c_out = NULL
    /\ c_pc = "call"
    /\ DetectIdle
    /\ QueryIdle
    /\ DiagIdle
    /\ RunIdle
    /\ SetupIdle

CallCategory(group_by) ==
    /\ c_pc = "call"
    /\ c_in' = [c_in EXCEPT !.group_by = group_by]
    /\ c_out' = get_category_sql(group_by, c_in.row)
    /\ c_pc' = "done"
    /\ UNCHANGED <<detectVars, queryVars, diag, run, setup>>

CategoryService == CallCategory("service")

CategoryProject == CallCategory("project")

CategoryAi == CallCategory("ai")

CategoryModel == CallCategory("model")

CategoryNext == CategoryService \/ CategoryProject \/ CategoryAi \/ CategoryModel

SpecCategory == CategoryInit /\ [][CategoryNext]_vars

\* The positions of the SKU patterns, in the listed order, that the lower-cased
\* SKU description of the row contains.
MatchingPatterns(row) ==
    { i \in 1..Len(sku_model_patterns) :
        Contains(LOWER(row.sku_description), sku_model_patterns[i][1]) }

\* The row carries the label goog-vertex-ai-model-id with value v.
HasModelLabel(row, v) ==
    \E i \in 1..Len(row.system_labels) :
        /\ row.system_labels[i].key = "goog-vertex-ai-model-id"
        /\ row.system_labels[i].value = v

\* C5: under grouping by 'model' the category of a row is its
\* goog-vertex-ai-model-id label when it has one (also when a SKU pattern
\* matches); otherwise the model name of the first listed pattern its lower-cased
\* SKU description contains; otherwise 'Vertex AI - <sku description>' when the
\* lower-cased service description contains 'vertex ai', else the service
\* description.
C5_ModelCategoryPrecedence ==
    (c_pc = "done" /\ c_in.group_by = "model") =>
        LET row      == c_in.row
            labelled == \E i \in 1..Len(row.system_labels) :
                            row.system_labels[i].key = "goog-vertex-ai-model-id"
            matches  == MatchingPatterns(row)
        IN  /\ c_out # NULL
            /\ labelled => HasModelLabel(row, c_out[1])
            /\ (~labelled /\ matches # {}) =>
                  \E i \in matches :
                      /\ \A j \in matches : i <= j
                      /\ c_out[1] = sku_model_patterns[i][2]
            /\ (~labelled /\ matches = {}) =>
                  IF Contains(LOWER(row.service_description), <<"v","e","r","t","e","x"," ","a","i">>)
                  THEN c_out[1] = <<"V","e","r","t","e","x"," ","A","I"," ","-"," ">> \o row.sku_description
                  ELSE c_out[1] = row.service_description

\* C5's case: a row with a label and with a SKU description that matches a
\* pattern, attributed to the label.
C5_Witness ==
    /\ c_pc = "done"
    /\ c_in.group_by = "model"
    /\ HasModelLabel(c_in.row, <<"g","e","m","i","n","i","-","x">>)
    /\ MatchingPatterns(c_in.row) # {}
    /\ c_out = << <<"g","e","m","i","n","i","-","x">> >>

(***************************************************************************)
(* Dates and timestamps.  A date is <<year, month, day>>; a timestamp      *)
(* counts ticks since 1970-01-01 00:00 UTC, TicksPerDay ticks a day.       *)
(***************************************************************************)
TicksPerDay == 2

IsLeap(y) == (y % 4 = 0 /\ y % 100 # 0) \/ y % 400 = 0

DaysInMonth(y, m) ==
    IF m = 2 THEN (IF IsLeap(y) THEN 29 ELSE 28)
    ELSE IF m \in {4, 6, 9, 11} THEN 30 ELSE 31

\* The days from 1970-01-01 to the date (proleptic Gregorian calendar).
days_from_civil(date) ==
    LET y   == IF date[2] <= 2 THEN date[1] - 1 ELSE date[1]
        era == y \div 400
        yoe == y - era * 400
        mp  == IF date[2] > 2 THEN date[2] - 3 ELSE date[2] + 9
        doy == (153 * mp + 2) \div 5 + date[3] - 1
        doe == yoe * 365 + yoe \div 4 - yoe \div 100 + doy
    IN  era * 146097 + doe - 719468

\* The date of a day number: the inverse of days_from_civil.
civil_from_days(z0) ==
    LET z   == z0 + 719468
        era == z \div 146097
        doe == z - era * 146097
        yoe == (doe - doe \div 1460 + doe \div 36524 - doe \div 146096) \div 365
        doy == doe - (365 * yoe + yoe \div 4 - yoe \div 100)
        mp  == (5 * doy + 2) \div 153
        d   == doy - (153 * mp + 2) \div 5 + 1
        m   == IF mp < 10 THEN mp + 3 ELSE mp - 9
        y   == yoe + era * 400 + (IF m <= 2 THEN 1 ELSE 0)
    IN  <<y, m, d>>

\* SQL TIMESTAMP('YYYY-MM-DD'): midnight UTC of the date.
TIMESTAMP(date) == days_from_civil(date) * TicksPerDay

\* SQL DATE(timestamp): the UTC date of the timestamp.
DATE(ts) == civil_from_days(ts \div TicksPerDay)

\* SQL FORMAT_DATE("%Y-%m", x): the year and month.
FORMAT_DATE_Y_m(ts) == <<DATE(ts)[1], DATE(ts)[2]>>

(***************************************************************************)
(* The cost query of get_costs_from_bigquery: its construction and its     *)
(* evaluation on the rows of the export table.                             *)
(***************************************************************************)
\* group_fields.get(group_by, 'service.description') of gcpbill.py, evaluated
\* on a row.
gcpbill_group_field(group_by, row) ==
    IF group_by = "service" THEN << row.service_description >>
    ELSE IF group_by = "project" THEN << row.project_id >>
    ELSE IF group_by = "day" THEN << DATE(row.usage_start_time) >>
    ELSE IF group_by = "month" THEN << FORMAT_DATE_Y_m(row.usage_start_time) >>
    ELSE << row.service_description >>

\* Mutant of BuildQuery: the end of the range is compared with <=.
BuildQueryEndInclusive(script, table_id, start_date, end_date, project_filter, group_by) ==
    [ category |-> [script |-> script, group_by |-> group_by],
      from     |-> table_id,
      where    |-> << [col |-> "usage_start_time", op |-> ">=", val |-> TIMESTAMP(start_date)],
                      [col |-> "usage_start_time", op |-> "<=", val |-> TIMESTAMP(end_date)] >>
                   \o (IF project_filter # None
                       THEN << [col |-> "project.id", op |-> "=", val |-> project_filter] >>
                       ELSE << >>),
      group_by |-> <<"category", "currency">>,
      order_by |-> <<"total_cost", "DESC">> ]

\* The query text: SELECT <category> as category, ROUND(SUM(cost), 2) as
\* total_cost, currency FROM <table> WHERE usage_start_time >= TIMESTAMP(start)
\* AND usage_start_time < TIMESTAMP(end) [AND project.id = '<filter>']
\* GROUP BY category, currency ORDER BY total_cost DESC.  "if project_filter:"
\* is false for None and for the empty string.
BuildQuery(script, table_id, start_date, end_date, project_filter, group_by) ==
    [ category |-> [script |-> script, group_by |-> group_by],
      from     |-> table_id,
      where    |-> << [col |-> "usage_start_time", op |-> ">=", val |-> TIMESTAMP(start_date)],
                      [col |-> "usage_start_time", op |-> "<", val |-> TIMESTAMP(end_date)] >>
                   \o (IF project_filter # None
                       THEN << [col |-> "project.id", op |-> "=", val |-> project_filter] >>
                       ELSE << >>),
      group_by |-> <<"category", "currency">>,
      order_by |-> <<"total_cost", "DESC">> ]

\* The value of the query's category expression on a row.
CategoryOf(q, row) ==
    IF q.category.script = "viewer"
    THEN get_category_sql(q.category.group_by, row)
    ELSE gcpbill_group_field(q.category.group_by, row)

\* One condition of the WHERE clause on a row.
CondHolds(c, row) ==
    LET x == IF c.col = "usage_start_time" THEN row.usage_start_time ELSE row.project_id
    IN  IF c.op = ">=" THEN x >= c.val
        ELSE IF c.op = "<" THEN x < c.val
        ELSE IF c.op = "<=" THEN x <= c.val
        ELSE x = c.val

RECURSIVE SumCost(_, _)
SumCost(rows, idx) ==
    IF idx = {} THEN 0
    ELSE LET i == CHOOSE i \in idx : TRUE
         IN  rows[i].cost + SumCost(rows, idx \ {i})

\* SQL ROUND(x, 2) of an amount in thousandths: to hundredths, halves away
\* from zero.
ROUND2(x) == IF x >= 0 THEN ((x + 5) \div 10) * 10 ELSE -(((5 - x) \div 10) * 10)

\* The rows the query yields, without their order: one per (category, currency)
\* of the rows that pass the WHERE clause.
QueryGroups(q, rows) ==
    LET sel  == { i \in 1..Len(rows) :
                    \A k \in 1..Len(q.where) : CondHolds(q.where[k], rows[i]) }
        keys == { <<CategoryOf(q, rows[i]), rows[i].currency>> : i \in sel }
    IN  { [ category   |-> key[1],
            total_cost |-> ROUND2(SumCost(rows,
                              { i \in sel : <<CategoryOf(q, rows[i]), rows[i].currency>> = key })),
            currency   |-> key[2] ] : key \in keys }

\* The orders ORDER BY total_cost DESC may give the rows: any order without a
\* smaller total before a larger one (rows with equal totals come in any order).
QueryResults(q, rows) ==
    LET g == QueryGroups(q, rows)
        n == Cardinality(g)
    IN  { s \in [1..n -> g] :
            /\ \A i, j \in 1..n : i # j => s[i] # s[j]
            /\ \A i, j \in 1..n : i < j => s[i].total_cost >= s[j].total_cost }

Unknown == <<"U","n","k","n","o","w","n">>

\* "for row in results: costs.append({group_by: row.category or 'Unknown',
\* 'cost': float(row.total_cost), 'currency': row.currency})"
CostsOf(result, group_by) ==
    [ i \in 1..Len(result) |->
        [ key      |-> group_by,
          category |-> IF result[i].category = NULL \/ result[i].category[1] = <<>>
                       THEN Unknown ELSE result[i].category[1],
          cost     |-> result[i].total_cost,
          currency |-> result[i].currency ] ]

(***************************************************************************)
(* SpecQuery: the cost query of either script, built for any dates,        *)
(* project filter and --group-by value of the script, and evaluated on the *)
(* rows of an export table.                                                *)
(***************************************************************************)
MaxRows == 2

D1 == <<2025, 1, 31>>

D2 == <<2025, 2, 1>>

D3 == <<2025, 2, 2>>

\* Usage start times around midnight of D2: the last tick of D1, midnight,
\* and the next tick.
RowTimes == { TIMESTAMP(D2) - 1, TIMESTAMP(D2), TIMESTAMP(D2) + 1 }

RowKinds ==
    { [project |-> "1", service |-> <<"C","o","m","p","u","t","e"," ","E","n","g","i","n","e">>, sku |-> <<"N","1"," ","C","o","r","e">>, cost |-> 4, currency |-> "USD"],
      [project |-> "1", service |-> <<"V","e","r","t","e","x"," ","A","I">>, sku |-> <<"G","e","m","i","n","i"," ","P","r","o"," ","I","n","p","u","t">>, cost |-> 6, currency |-> "USD"],
      [project |-> "2", service |-> <<"C","o","m","p","u","t","e"," ","E","n","g","i","n","e">>, sku |-> <<"N","1"," ","C","o","r","e">>, cost |-> 4, currency |-> "USD"],
      [project |-> "1", service |-> <<"C","o","m","p","u","t","e"," ","E","n","g","i","n","e">>, sku |-> <<"N","1"," ","C","o","r","e">>, cost |-> 6, currency |-> "EUR"] }

BillingRows ==
    { [ usage_start_time    |-> t,
        project_id          |-> <<"p", k.project>>,
        project_name        |-> <<"P", k.project>>,
        service_description |-> k.service,
        sku_description     |-> k.sku,
        system_labels       |-> <<>>,
        cost                |-> k.cost,
        currency            |-> k.currency ] : t \in RowTimes, k \in RowKinds }

GcpbillGroupBy == {"service", "project", "day", "month"}

export_table == <<project_id, "billing_export", gcp_billing_export_v1_ \o <<"A","_","B">> >>

QueryInit ==
    /\ DetectIdle
    /\ CategoryIdle
    /\ DiagIdle
    /\ RunIdle
    /\ SetupIdle
    /\ table_rows \in SeqsUpTo(BillingRows, MaxRows)
    /\ q_in \in [ script : {"none"}, group_by : {"none"},
                  start_date : {D1, D2}, end_date : {D2, D3},
                  project_filter : {None, <<"p","1">>} ]
    /\ q_out = [query |-> <<>>, result |-> <<>>, costs |-> <<>>]
    /\ q_pc = "call"

CallQuery(script, choices) ==
    /\ q_pc = "call"
    /\ \E group_by \in choices :
         LET q == BuildQuery(script, export_table, q_in.start_date, q_in.end_date,
                             q_in.project_filter, group_by)
         IN  /\ q_in' = [q_in EXCEPT !.script = script, !.group_by = group_by]
             /\ \E result \in QueryResults(q, table_rows) :
                  q_out' = [query |-> q, result |-> result,
                            costs |-> CostsOf(result, group_by)]
    /\ q_pc' = "done"
    /\ UNCHANGED <<table_rows, detectVars, categoryVars, diag, run, setup>>

ViewerQuery == CallQuery("viewer", ViewerGroupBy)

GcpbillQuery == CallQuery("gcpbill", GcpbillGroupBy)

QueryNext == ViewerQuery \/ GcpbillQuery

SpecQuery == QueryInit /\ [][QueryNext]_vars

\* The rows of the table with start <= usage_start_time < end (midnight UTC of
\* the dates) and, when a project filter is given, with that project id.
RowsInRange ==
    { i \in 1..Len(table_rows) :
        /\ TIMESTAMP(q_in.start_date) <= table_rows[i].usage_start_time
        /\ table_rows[i].usage_start_time < TIMESTAMP(q_in.end_date)
        /\ q_in.project_filter # None => table_rows[i].project_id = q_in.project_filter }

RECURSIVE TotalOf(_)
TotalOf(idx) ==
    IF idx = {} THEN 0
    ELSE LET i == CHOOSE i \in idx : TRUE
         IN  table_rows[i].cost + TotalOf(idx \ {i})

\* C4: the cost query selects exactly the rows with start <= usage_start_time
\* < end, and with project.id = P if and only if a project filter P is given;
\* it yields one row per (category, currency) of the selected rows, with their
\* cost summed (rounded to 2 decimals), ordered by descending total cost.
C4_QueryRangeGroupOrder ==
    q_pc = "done" =>
        LET q   == q_out.query
            res == q_out.result
            key(i) == <<CategoryOf(q, table_rows[i]), table_rows[i].currency>>
        IN  /\ { <<res[n].category, res[n].currency>> : n \in 1..Len(res) }
                 = { key(i) : i \in RowsInRange }
            /\ \A n, m \in 1..Len(res) :
                 n # m => <<res[n].category, res[n].currency>> # <<res[m].category, res[m].currency>>
            /\ \A n \in 1..Len(res) :
                 res[n].total_cost =
                   ROUND2(TotalOf({ i \in RowsInRange :
                                      key(i) = <<res[n].category, res[n].currency>> }))
            /\ \A n, m \in 1..Len(res) : n < m => res[n].total_cost >= res[m].total_cost
            /\ q.group_by = <<"category", "currency">>

\* C4's case: with a project filter and a range of one day, the table holds a
\* row of the project at midnight of the end date (left out: the end is
\* exclusive) and a row of the project one tick before it (selected), and the
\* query yields one row.
C4_Witness ==
    /\ q_pc = "done"
    /\ q_in.project_filter # None
    /\ q_in.start_date # q_in.end_date
    /\ \E i \in 1..Len(table_rows) :
         /\ table_rows[i].usage_start_time = TIMESTAMP(q_in.end_date)
         /\ table_rows[i].project_id = q_in.project_filter
    /\ \E i \in 1..Len(table_rows) :
         /\ table_rows[i].usage_start_time = TIMESTAMP(q_in.end_date) - 1
         /\ table_rows[i].project_id = q_in.project_filter
    /\ Len(q_out.result) = 1

(***************************************************************************)
(* check_bigquery.py: the diagnostic run.  diag is the state of main():    *)
(* its position, the values of its local variables and what it printed.    *)
(* Each provider call answers when it is made: it fails, or returns one of *)
(* the values the provider may hold.                                       *)
(***************************************************************************)
\* The states of the diagnostic sequence, in the order of main().
DiagOrder ==
    <<"Authenticate", "ListBillingAccounts", "CheckAPI", "EnumerateDatasets",
      "DetectExportHealth", "Recommend">>

SecondsPerHour == 3600

WaitHours == 24

gcp_billing_export == <<"g","c","p","_","b","i","l","l","i","n","g","_","e","x","p","o","r","t">>

events_table == <<"e","v","e","n","t","s">>

\* Table ids the diagnostic may be shown: an export table and another table.
DiagTableIds == { gcp_billing_export_v1_ \o <<"A","_","B">>, events_table }

DiagTableListings == { s \in SeqsUpTo(DiagTableIds, MaxTables) : Distinct(s) }

DiagDatasetListings == { s \in SeqsUpTo(DatasetIds, MaxDatasets) : Distinct(s) }

\* What get_table may report: the row count, and the age of the table in
\* seconds (now - created) around the 24 hour mark.
TableMeta ==
    [num_rows : {0, 5}, age : {WaitHours * SecondsPerHour - 1, WaitHours * SecondsPerHour}]

\* bt['hours_ago'] < 24, hours_ago being age / 3600.
HoursAgoUnder24(age) == age < WaitHours * SecondsPerHour

DiagStart ==
    [ pc |-> "Authenticate", visited |-> <<"Authenticate">>, exit_code |-> -1,
      traceback |-> FALSE, failed |-> {}, billing_accounts |-> None,
      ds |-> <<>>, i |-> 0, tables |-> <<>>, j |-> 0,
      billing_export_found |-> FALSE, billing_tables |-> <<>>,
      statuses |-> <<>>, verdicts |-> <<>>, out |-> {} ]

DiagInit ==
    /\ diag = DiagStart
    /\ DetectIdle
    /\ CategoryIdle
    /\ QueryIdle
    /\ RunIdle
    /\ SetupIdle

\* main() moves on to the next state of the sequence.
Enter(d, state) == [d EXCEPT !.pc = state, !.visited = Append(@, state)]

\* sys.exit(code).
Exit(d, code) == [d EXCEPT !.pc = "exit", !.exit_code = code]

\* An exception no handler catches: the interpreter prints the traceback and
\* the process ends with code 1.
Uncaught(d, call) ==
    [d EXCEPT !.pc = "exit", !.exit_code = 1, !.traceback = TRUE,
              !.failed = @ \cup {call}]

\* check_authentication(): default() fails -> message, sys.exit(1).
check_authentication(d, ok) ==
    IF ok
    THEN Enter([d EXCEPT !.out = @ \cup {"Authenticated successfully"}],
               "ListBillingAccounts")
    ELSE Exit([d EXCEPT !.failed = @ \cup {"Authenticate"},
                        !.out = @ \cup {"Authentication failed"}], 1)

Authenticate ==
    /\ diag.pc = "Authenticate"
    /\ \E ok \in BOOLEAN : diag' = check_authentication(diag, ok)
    /\ UNCHANGED <<detectVars, categoryVars, queryVars, run, setup>>

\* check_billing_accounts(): the list of accounts, None when it is empty or
\* when listing fails; main() goes on to the BigQuery client and STEP 3.
check_billing_accounts(d, ok, accounts) ==
    IF ~ok
    THEN Enter([d EXCEPT !.failed = @ \cup {"ListBillingAccounts"},
                         !.billing_accounts = None,
                         !.out = @ \cup {"Failed to list billing accounts"}], "CheckAPI")
    ELSE IF accounts = <<>>
    THEN Enter([d EXCEPT !.billing_accounts = None,
                         !.out = @ \cup {"No billing accounts found"}], "CheckAPI")
    ELSE Enter([d EXCEPT !.billing_accounts = accounts,
                         !.out = @ \cup {"Found billing account(s)"}], "CheckAPI")

ListBillingAccounts ==
    /\ diag.pc = "ListBillingAccounts"
    /\ \E ok \in BOOLEAN, accounts \in {<<>>, << <<"A","-","B">> >>} :
         diag' = check_billing_accounts(diag, ok, accounts)
    /\ UNCHANGED <<detectVars, categoryVars, queryVars, run, setup>>

\* Mutant of check_bigquery_api_step: main() goes on when the check fails.
check_bigquery_api_no_exit(d, ok) ==
    IF ok
    THEN Enter([d EXCEPT !.out = @ \cup {"BigQuery API is enabled and accessible"}],
               "EnumerateDatasets")
    ELSE Enter([d EXCEPT !.failed = @ \cup {"CheckAPI"},
                         !.out = @ \cup {"BigQuery API error"}], "EnumerateDatasets")

\* "if not check_bigquery_api(client, project_id): sys.exit(1)":
\* list_datasets(max_results=1) fails -> False -> exit code 1.
check_bigquery_api_step(d, ok) ==
    IF ok
    THEN Enter([d EXCEPT !.out = @ \cup {"BigQuery API is enabled and accessible"}],
               "EnumerateDatasets")
    ELSE Exit([d EXCEPT !.failed = @ \cup {"CheckAPI"},
                        !.out = @ \cup {"BigQuery API error"}], 1)

CheckAPI ==
    /\ diag.pc = "CheckAPI"
    /\ \E ok \in BOOLEAN : diag' = check_bigquery_api_step(diag, ok)
    /\ UNCHANGED <<detectVars, categoryVars, queryVars, run, setup>>

\* check_datasets_and_tables(), line 77: "datasets = list(client.list_datasets())"
\* stands outside any try.  No datasets: return None, None (both false in every
\* test main() makes of them).
list_datasets_step(d, ok, listing) ==
    IF ~ok THEN Uncaught(d, "list_datasets")
    ELSE IF listing = <<>>
    THEN Enter([d EXCEPT !.billing_export_found = FALSE, !.billing_tables = <<>>,
                         !.out = @ \cup {"No datasets found in project"}],
               "DetectExportHealth")
    ELSE [d EXCEPT !.pc = "ScanDataset", !.ds = listing, !.i = 1,
                   !.billing_export_found = FALSE, !.billing_tables = <<>>]

EnumerateDatasets ==
    /\ diag.pc = "EnumerateDatasets"
    /\ \E ok \in BOOLEAN, listing \in DiagDatasetListings :
         diag' = list_datasets_step(diag, ok, listing)
    /\ UNCHANGED <<detectVars, categoryVars, queryVars, run, setup>>

\* The end of one pass of "for dataset in datasets": the next dataset, or
\* "return billing_export_found, billing_tables".
NextDataset(d) ==
    IF d.i < Len(d.ds)
    THEN [d EXCEPT !.pc = "ScanDataset", !.i = @ + 1, !.tables = <<>>, !.j = 0]
    ELSE Enter([d EXCEPT !.tables = <<>>, !.j = 0], "DetectExportHealth")

\* One dataset of the loop, lines 91-108: get_dataset inside a try,
\* "tables = list(client.list_tables(...))" outside any try, and the branch of
\* an empty dataset, which sets billing_export_found = False for a dataset
\* named like a billing dataset.
scan_dataset(d, detailsOk, tablesOk, listing) ==
    LET d1 == IF detailsOk THEN d
              ELSE [d EXCEPT !.failed = @ \cup {"get_dataset"},
                             !.out = @ \cup {"Could not get dataset details"}]
    IN  IF ~tablesOk THEN Uncaught(d1, "list_tables")
        ELSE IF listing = <<>>
        THEN IF d1.ds[d1.i] \in {"billing_export", "billing_data", "billing"}
             THEN NextDataset([d1 EXCEPT !.billing_export_found = FALSE,
                                         !.out = @ \cup {"looks like a billing dataset but has no tables"}])
             ELSE NextDataset(d1)
        ELSE [d1 EXCEPT !.pc = "ScanTable", !.tables = listing, !.j = 1]

ScanDataset ==
    /\ diag.pc = "ScanDataset"
    /\ \E detailsOk, tablesOk \in BOOLEAN, listing \in DiagTableListings :
         diag' = scan_dataset(diag, detailsOk, tablesOk, listing)
    /\ UNCHANGED <<detectVars, categoryVars, queryVars, run, setup>>

\* The end of one pass of "for table in tables".
NextTable(d) ==
    IF d.j < Len(d.tables) THEN [d EXCEPT !.j = @ + 1] ELSE NextDataset(d)

\* One table of the loop, lines 111-154: get_table and all that follows lie
\* in one try; a table whose id contains 'gcp_billing_export' is recorded, and
\* its date range queried inside a try of its own.
scan_table(d, tableOk, meta, queryOk) ==
    IF ~tableOk
    THEN NextTable([d EXCEPT !.failed = @ \cup {"get_table"},
                             !.out = @ \cup {"Error getting table details"}])
    ELSE IF Contains(d.tables[d.j], gcp_billing_export)
    THEN LET rec == [dataset |-> d.ds[d.i], table |-> d.tables[d.j],
                     rows |-> meta.num_rows, age |-> meta.age]
             d1  == [d EXCEPT !.billing_export_found = TRUE,
                              !.billing_tables = Append(@, rec)]
         IN  IF queryOk THEN NextTable(d1)
             ELSE NextTable([d1 EXCEPT !.failed = @ \cup {"query"},
                                       !.out = @ \cup {"Could not check data range"}])
    ELSE NextTable(d)

ScanTable ==
    /\ diag.pc = "ScanTable"
    /\ \E tableOk, queryOk \in BOOLEAN, meta \in TableMeta :
         diag' = scan_table(diag, tableOk, meta, queryOk)
    /\ UNCHANGED <<detectVars, categoryVars, queryVars, run, setup>>

\* The status line of one table, lines 171-180.
table_status(bt) ==
    IF bt.rows = 0
    THEN IF HoursAgoUnder24(bt.age) THEN "waiting" ELSE "misconfigured"
    ELSE "working"

\* check_billing_export_configuration(): a status per recorded table when
\* billing_export_found, the "No billing export tables found" report otherwise.
check_billing_export_configuration(d) ==
    IF d.billing_export_found
    THEN Enter([d EXCEPT !.statuses = [k \in 1..Len(d.billing_tables) |->
                                          table_status(d.billing_tables[k])],
                         !.out = @ \cup {"Billing export table(s) found"}],
               "Recommend")
    ELSE Enter([d EXCEPT !.out = @ \cup {"No billing export tables found"}], "Recommend")

DetectExportHealth ==
    /\ diag.pc = "DetectExportHealth"
    /\ diag' = check_billing_export_configuration(diag)
    /\ UNCHANGED <<detectVars, categoryVars, queryVars, run, setup>>

\* str.replace(old, new) for strings: every occurrence, left to right, without
\* overlap.
RECURSIVE ReplaceAll(_, _, _)
ReplaceAll(s, old, new) ==
    IF Len(s) < Len(old) THEN s
    ELSE IF SubSeq(s, 1, Len(old)) = old
    THEN new \o ReplaceAll(SubSeq(s, Len(old) + 1, Len(s)), old, new)
    ELSE <<s[1]>> \o ReplaceAll(SubSeq(s, 2, Len(s)), old, new)

\* Lines 221-226: the billing account id printed for a table.
formatted_id(table) ==
    LET billing_id == Replace(ReplaceAll(table, gcp_billing_export_v1_, <<>>), "_", "-")
    IN  IF Len(billing_id) >= 18
        THEN SubSeq(billing_id, 1, 6) \o <<"-">> \o SubSeq(billing_id, 7, 12)
             \o <<"-">> \o SubSeq(billing_id, 13, Len(billing_id))
        ELSE billing_id

\* provide_recommendations(): the verdict, and for a working export the
\* command line with the account id of the first table that has rows.
provide_recommendations(d) ==
    LET bts == d.billing_tables
        withData == { k \in 1..Len(bts) : bts[k].rows > 0 }
    IN  IF ~d.billing_export_found
        THEN [d EXCEPT !.verdicts = Append(@, <<"not configured">>)]
        ELSE IF bts # <<>>
        THEN IF withData # {}
             THEN LET k == CHOOSE k \in withData : \A m \in withData : k <= m
                  IN  [d EXCEPT !.verdicts =
                          Append(@, <<"working", formatted_id(bts[k].table)>>)]
             ELSE LET youngest == CHOOSE k \in 1..Len(bts) :
                                     \A m \in 1..Len(bts) : bts[k].age <= bts[m].age
                  IN  IF HoursAgoUnder24(bts[youngest].age)
                      THEN [d EXCEPT !.verdicts = Append(@, <<"waiting for data">>)]
                      ELSE [d EXCEPT !.verdicts = Append(@, <<"no data after 24+ hours">>)]
        ELSE d

Recommend ==
    /\ diag.pc = "Recommend"
    /\ diag' = [provide_recommendations(diag) EXCEPT !.pc = "Finish"]
    /\ UNCHANGED <<detectVars, categoryVars, queryVars, run, setup>>

\* The end of main(): the closing line, and the process ends with code 0.
Finish ==
    /\ diag.pc = "Finish"
    /\ diag' = Exit(diag, 0)
    /\ UNCHANGED <<detectVars, categoryVars, queryVars, run, setup>>

DiagNext ==
    \/ Authenticate
    \/ ListBillingAccounts
    \/ CheckAPI
    \/ EnumerateDatasets
    \/ ScanDataset
    \/ ScanTable
    \/ DetectExportHealth
    \/ Recommend
    \/ Finish

SpecDiag == DiagInit /\ [][DiagNext]_vars

Visited(state) == \E k \in 1..Len(diag.visited) : diag.visited[k] = state

\* C6: once the health step has run, every detected export table (every table
\* recorded in billing_tables) has exactly one status: 'waiting' for no rows and
\* an age under 24h, 'misconfigured' for no rows and an age of 24h or more,
\* 'working' for any rows.
C6_EveryDetectedTableClassified ==
    Visited("Recommend") =>
        /\ Len(diag.statuses) = Len(diag.billing_tables)
        /\ \A k \in 1..Len(diag.statuses) :
             LET bt == diag.billing_tables[k]
             IN  diag.statuses[k] =
                   IF bt.rows # 0 THEN "working"
                   ELSE IF bt.age < 24 * 3600 THEN "waiting"
                   ELSE "misconfigured"

\* The statuses that are printed are the claimed ones (the part of C6 the code
\* keeps): a recorded table that gets a status gets the one of its row count
\* and age.
C6_PrintedStatusesAreRight ==
    /\ Len(diag.statuses) \in {0, Len(diag.billing_tables)}
    /\ \A k \in 1..Len(diag.statuses) :
         LET bt == diag.billing_tables[k]
         IN  diag.statuses[k] =
               IF bt.rows # 0 THEN "working"
               ELSE IF bt.age < 24 * 3600 THEN "waiting"
               ELSE "misconfigured"

\* C7: the states are entered in the order Authenticate, ListBillingAccounts,
\* CheckAPI, EnumerateDatasets, DetectExportHealth, Recommend, each at most
\* once; a failed Authenticate or CheckAPI ends the process with code 1 with no
\* later state entered; a failed ListBillingAccounts does not end it.
C7_DiagnosticOrder ==
    /\ Len(diag.visited) <= Len(DiagOrder)
    /\ \A k \in 1..Len(diag.visited) : diag.visited[k] = DiagOrder[k]
    /\ "Authenticate" \in diag.failed =>
         /\ diag.pc = "exit" /\ diag.exit_code = 1
         /\ diag.visited = <<"Authenticate">>
    /\ "CheckAPI" \in diag.failed =>
         /\ diag.pc = "exit" /\ diag.exit_code = 1
         /\ diag.visited = <<"Authenticate", "ListBillingAccounts", "CheckAPI">>
    /\ "ListBillingAccounts" \in diag.failed =>
         /\ Visited("CheckAPI")
         /\ (diag.pc = "exit" /\ diag.visited = <<"Authenticate", "ListBillingAccounts", "CheckAPI">>)
              => "CheckAPI" \in diag.failed

\* C7's case: listing the billing accounts failed and the run went through all
\* six states to its normal end.
C7_Witness ==
    /\ diag.pc = "exit"
    /\ diag.exit_code = 0
    /\ "ListBillingAccounts" \in diag.failed
    /\ diag.visited = DiagOrder

\* C8: a run in which CheckAPI succeeded reaches Recommend and ends normally
\* (exit code 0, no traceback), whichever provider call of EnumerateDatasets or
\* DetectExportHealth fails.
C8_RunReachesRecommend ==
    (diag.pc = "exit" /\ Visited("EnumerateDatasets")) =>
        /\ Visited("Recommend")
        /\ diag.exit_code = 0
        /\ ~diag.traceback

\* The failures the code does degrade to a report: get_dataset, get_table and
\* the date-range query never end the run.
C8_GuardedCallsDegrade ==
    (diag.pc = "exit" /\ Visited("EnumerateDatasets")
       /\ diag.failed \cap {"list_datasets", "list_tables"} = {}) =>
        /\ Visited("Recommend")
        /\ diag.exit_code = 0
        /\ ~diag.traceback

(***************************************************************************)
(* Date strings.  The viewer scripts carry --start-date and --end-date as  *)
(* strings: gcpbill.py parses them with datetime.strptime(s, '%Y-%m-%d'),  *)
(* both put them into the query text as TIMESTAMP('<s>').                  *)
(***************************************************************************)
DigitChars == <<"0","1","2","3","4","5","6","7","8","9">>

IsDigit(c) == \E i \in 1..Len(DigitChars) : DigitChars[i] = c

DigitVal(c) == (CHOOSE i \in 1..Len(DigitChars) : DigitChars[i] = c) - 1

AllDigits(s) == \A i \in 1..Len(s) : IsDigit(s[i])

RECURSIVE NumVal(_)
NumVal(s) ==
    IF s = <<>> THEN 0
    ELSE NumVal(SubSeq(s, 1, Len(s) - 1)) * 10 + DigitVal(s[Len(s)])

\* str.split(sep) for a one-character separator.
RECURSIVE Split(_, _)
Split(s, sep) ==
    IF \A i \in 1..Len(s) : s[i] # sep THEN <<s>>
    ELSE LET k == CHOOSE i \in 1..Len(s) :
                     s[i] = sep /\ \A j \in 1..(i - 1) : s[j] # sep
         IN  <<SubSeq(s, 1, k - 1)>> \o Split(SubSeq(s, k + 1, Len(s)), sep)

\* datetime.strptime(s, '%Y-%m-%d'): the date, or <<>> for ValueError.  %Y is
\* four digits; %m and %d are one or two digits (1[0-2]|0[1-9]|[1-9] and
\* 3[01]|[12]\d|0[1-9]|[1-9]), so a month or day without its leading zero is
\* accepted; the whole string must match and name a day of the calendar.
strptime(s) ==
    LET p == Split(s, "-")
    IN  IF Len(p) # 3 THEN <<>>
        ELSE IF ~(AllDigits(p[1]) /\ AllDigits(p[2]) /\ AllDigits(p[3])) THEN <<>>
        ELSE IF Len(p[1]) # 4 \/ Len(p[2]) \notin 1..2 \/ Len(p[3]) \notin 1..2 THEN <<>>
        ELSE LET y == NumVal(p[1])
                 m == NumVal(p[2])
                 d == NumVal(p[3])
             IN  IF y >= 1 /\ m \in 1..12 /\ d \in 1..31 /\ d <= DaysInMonth(y, m)
                 THEN <<y, m, d>> ELSE <<>>

\* The provider's reading of TIMESTAMP('<s>') for a date string: the canonical
\* form YYYY-[M]M-[D]D of a calendar day, <<>> when the literal is invalid (the
\* query then fails).
TimestampLiteral(s) == strptime(s)

RECURSIVE Pad(_, _)
Pad(n, w) == IF w = 0 THEN <<>> ELSE Pad(n \div 10, w - 1) \o <<DigitChars[(n % 10) + 1]>>

\* date.strftime('%Y-%m-%d').
strftime(date) == Pad(date[1], 4) \o <<"-">> \o Pad(date[2], 2) \o <<"-">> \o Pad(date[3], 2)

\* datetime.now(), as a date.
Today == <<2025, 2, 2>>

\* date - timedelta(days=n).
days_before(date, n) == civil_from_days(days_from_civil(date) - n)

(***************************************************************************)
(* The viewer scripts: one run of main() of gcp-bill-viewer.py ("viewer")  *)
(* or gcpbill.py ("gcpbill").  run holds the parsed arguments, the         *)
(* position in main(), the values of its variables, the provider calls     *)
(* issued (calls), what was printed (out, shown) and the exit code (-1     *)
(* while running).  Each provider call answers when it is made.            *)
(***************************************************************************)
RunDates == { None, <<"2","0","2","5","-","0","2","-","0","1">>, <<"2","0","2","5","-","2","-","1">>, <<"2","0","2","5","-","0","2","-","3","0">> }

RunEndDates == { None, <<"2","0","2","5","-","0","2","-","0","2">>, <<"0","2","/","0","2","/","2","0","2","5">> }

RunArgs ==
    [ list_accounts : BOOLEAN, list_projects : BOOLEAN, costs : BOOLEAN,
      billing_account : {None, <<"A","-","B">>},
      project : {None, <<"p","1">>},
      start_date : RunDates, end_date : RunEndDates,
      group_by : ViewerGroupBy \cup GcpbillGroupBy,
      format : {"table", "csv", "json"},
      debug : BOOLEAN ]

\* What the project may hold when the export table is looked for.
RunProjects ==
    { <<>>,
      << [dataset_id |-> "billing_export",
          tables |-> << gcp_billing_export_v1_ \o <<"A","_","B">> >>] >>,
      << [dataset_id |-> "analytics",
          tables |-> << gcp_billing_export_v1_ \o <<"A","_","C">> >>] >> }

RunRow(t, k) ==
    [ usage_start_time    |-> t,
      project_id          |-> <<"p", k.project>>,
      project_name        |-> <<"P", k.project>>,
      service_description |-> k.service,
      sku_description     |-> k.sku,
      system_labels       |-> <<>>,
      cost                |-> k.cost,
      currency            |-> k.currency ]

ComputeKind ==
    [project |-> "1", service |-> <<"C","o","m","p","u","t","e"," ","E","n","g","i","n","e">>, sku |-> <<"N","1"," ","C","o","r","e">>, cost |-> 4, currency |-> "USD"]

VertexKind ==
    [project |-> "2", service |-> <<"V","e","r","t","e","x"," ","A","I">>, sku |-> <<"G","e","m","i","n","i"," ","P","r","o"," ","I","n","p","u","t">>, cost |-> 6, currency |-> "USD"]

\* The rows the export table may hold: none, one, or two of 2025-02-01.
RunTables ==
    { <<>>,
      << RunRow(TIMESTAMP(D2), ComputeKind) >>,
      << RunRow(TIMESTAMP(D2), ComputeKind), RunRow(TIMESTAMP(D2) + 1, VertexKind) >> }

Some(x) == <<x>>

RunInit ==
    /\ \E script \in {"viewer", "gcpbill"}, args \in RunArgs :
         /\ args.group_by \in (IF script = "viewer" THEN ViewerGroupBy ELSE GcpbillGroupBy)
         /\ run = [ script |-> script, args |-> args, pc |-> "start",
                    exit_code |-> -1, traceback |-> FALSE, out |-> {}, shown |-> <<>>,
                    calls |-> <<>>, failed |-> {}, start_date |-> <<>>, end_date |-> <<>>,
                    table_id |-> None, rows |-> <<>>, creation_info |-> None,
                    date_range_info |-> None, fetched |-> 0, costs |-> <<>> ]
    /\ DetectIdle
    /\ CategoryIdle
    /\ QueryIdle
    /\ DiagIdle
    /\ SetupIdle

\* "if not any([args.list_accounts, args.list_projects, args.costs]):
\* parser.print_help(); sys.exit(0)", before the viewer object is made.
main_start(r) ==
    IF ~(r.args.list_accounts \/ r.args.list_projects \/ r.args.costs)
    THEN Exit([r EXCEPT !.out = @ \cup {"usage"}], 0)
    ELSE [r EXCEPT !.pc = "authenticate"]

RunStart ==
    /\ run # <<>> /\ run.pc = "start"
    /\ run' = main_start(run)
    /\ UNCHANGED <<detectVars, categoryVars, queryVars, diag, setup>>

\* What default() does: it returns credentials ("ok"), raises
\* DefaultCredentialsError or RefreshError ("credentials"), or raises another
\* exception ("other").
AuthOutcomes == {"ok", "credentials", "other"}

\* GCPBillingViewer._authenticate(): DefaultCredentialsError and RefreshError
\* print the ways to authenticate; any other exception prints "Error during
\* authentication", followed in gcpbill.py only by the command to run; both
\* end with sys.exit(1).
authenticate(r, outcome) ==
    IF outcome = "ok" THEN [r EXCEPT !.pc = "list_accounts"]
    ELSE IF outcome = "credentials"
    THEN Exit([r EXCEPT !.failed = @ \cup {"authenticate"},
                        !.out = @ \cup {"Error: Not authenticated with Google Cloud.",
                                        "Please authenticate using one of these methods:"}], 1)
    ELSE Exit([r EXCEPT !.failed = @ \cup {"authenticate"},
                        !.out = @ \cup {"Error during authentication"}
                                  \cup (IF r.script = "gcpbill"
                                        THEN {"Please run: gcloud auth application-default login"}
                                        ELSE {})], 1)

RunAuthenticate ==
    /\ run # <<>> /\ run.pc = "authenticate"
    /\ \E outcome \in AuthOutcomes : run' = authenticate(run, outcome)
    /\ UNCHANGED <<detectVars, categoryVars, queryVars, diag, setup>>

\* format_output(data, output_format).
format_output(r, what, data) ==
    [r EXCEPT !.shown = Append(@, [what |-> what, rows |-> Len(data),
                                   form |-> IF data = <<>> THEN "No data to display."
                                            ELSE r.args.format])]

billingAccounts_slash == <<"b","i","l","l","i","n","g","A","c","c","o","u","n","t","s","/">>

\* list_billing_accounts(account_filter): the accounts whose name contains the
\* filter; any failure of the listing -> message, sys.exit(1).
list_billing_accounts(r, ok, listing, account_filter) ==
    LET r1 == [r EXCEPT !.calls = Append(@, "list_billing_accounts")]
    IN  IF ~ok
        THEN [ run |-> Exit([r1 EXCEPT !.failed = @ \cup {"list_billing_accounts"},
                                       !.out = @ \cup {"Error listing billing accounts"}], 1),
               accounts |-> <<>> ]
        ELSE [ run |-> r1,
               accounts |-> SelectSeq(listing,
                              LAMBDA a : account_filter = None
                                         \/ Contains(billingAccounts_slash \o a, account_filter)) ]

\* "if args.list_accounts:" of main().
main_list_accounts(r, ok, listing) ==
    IF ~r.args.list_accounts THEN [r EXCEPT !.pc = "list_projects"]
    ELSE LET res == list_billing_accounts(r, ok, listing, r.args.billing_account)
         IN  IF res.run.pc = "exit" THEN res.run
             ELSE format_output([res.run EXCEPT !.pc = "list_projects"], "accounts",
                                res.accounts)

RunListAccounts ==
    /\ run # <<>> /\ run.pc = "list_accounts"
    /\ \E ok \in BOOLEAN, listing \in {<<>>, << <<"A","-","B">> >>} :
         run' = main_list_accounts(run, ok, listing)
    /\ UNCHANGED <<detectVars, categoryVars, queryVars, diag, setup>>

\* list_projects_with_billing(billing_account): the projects of the account,
\* or of every listed account; a failure of list_project_billing_info is
\* printed and the projects gathered so far are returned; sys.exit(1) of
\* list_billing_accounts passes through "except Exception".
list_projects_with_billing(r, accountsOk, listing, projectsOk) ==
    LET one(x) == [x EXCEPT !.calls = Append(@, "list_project_billing_info")]
        bad(x) == [x EXCEPT !.failed = @ \cup {"list_project_billing_info"},
                            !.out = @ \cup {"Error listing projects"}]
    IN  IF r.args.billing_account # None
        THEN IF projectsOk THEN [run |-> one(r), projects |-> <<"p1">>]
             ELSE [run |-> bad(one(r)), projects |-> <<>>]
        ELSE LET res == list_billing_accounts(r, accountsOk, listing, None)
             IN  IF res.run.pc = "exit" THEN [run |-> res.run, projects |-> <<>>]
                 ELSE IF res.accounts = <<>> THEN [run |-> res.run, projects |-> <<>>]
                 ELSE IF projectsOk THEN [run |-> one(res.run), projects |-> <<"p1">>]
                 ELSE [run |-> bad(one(res.run)), projects |-> <<>>]

\* "if args.list_projects:" of main().
main_list_projects(r, accountsOk, listing, projectsOk) ==
    IF ~r.args.list_projects THEN [r EXCEPT !.pc = "costs"]
    ELSE LET res == list_projects_with_billing(r, accountsOk, listing, projectsOk)
         IN  IF res.run.pc = "exit" THEN res.run
             ELSE format_output([res.run EXCEPT !.pc = "costs"], "projects", res.projects)

RunListProjects ==
    /\ run # <<>> /\ run.pc = "list_projects"
    /\ \E accountsOk, projectsOk \in BOOLEAN, listing \in {<<>>, << <<"A","-","B">> >>} :
         run' = main_list_projects(run, accountsOk, listing, projectsOk)
    /\ UNCHANGED <<detectVars, categoryVars, queryVars, diag, setup>>

\* Mutant of main_costs: gcpbill.py without its date validation.
main_costs_unvalidated(r) ==
    IF ~r.args.costs THEN Exit(r, 0)
    ELSE IF r.args.billing_account = None
    THEN Exit([r EXCEPT !.out = @ \cup {"Error: --billing-account is required"}], 1)
    ELSE LET end   == IF r.args.end_date # None THEN r.args.end_date ELSE strftime(Today)
             start == IF r.args.start_date # None THEN r.args.start_date
                      ELSE strftime(days_before(Today, 30))
         IN  [r EXCEPT !.pc = "detect", !.start_date = start, !.end_date = end]

\* "if args.costs:" of main(), up to the call of get_costs_from_bigquery: the
\* account is required ("not args.billing_account": None or empty), the dates
\* default to today and 30 days before; gcpbill.py then parses both dates and
\* exits with 1 on ValueError, gcp-bill-viewer.py does not look at them.
main_costs(r) ==
    IF ~r.args.costs THEN Exit(r, 0)
    ELSE IF r.args.billing_account = None
    THEN Exit([r EXCEPT !.out = @ \cup {"Error: --billing-account is required"}], 1)
    ELSE LET end   == IF r.args.end_date # None THEN r.args.end_date ELSE strftime(Today)
             start == IF r.args.start_date # None THEN r.args.start_date
                      ELSE strftime(days_before(Today, 30))
         IN  IF r.script = "gcpbill" /\ (strptime(start) = <<>> \/ strptime(end) = <<>>)
             THEN Exit([r EXCEPT !.start_date = start, !.end_date = end,
                                 !.out = @ \cup {"Error: Dates must be in YYYY-MM-DD format"}], 1)
             ELSE [r EXCEPT !.pc = "detect", !.start_date = start, !.end_date = end,
                            !.out = IF r.script = "gcpbill"
                                    THEN @ \cup {"=== Billing Costs ==="} ELSE @]

RunCosts ==
    /\ run # <<>> /\ run.pc = "costs"
    /\ run' = main_costs(run)
    /\ UNCHANGED <<detectVars, categoryVars, queryVars, diag, setup>>

\* The provider calls of one detection: list_datasets, then list_tables.
DetectCalls(n) == [i \in 1..n |-> IF i = 1 THEN "list_datasets" ELSE "list_tables"]

RECURSIVE SeqToSet(_)
SeqToSet(s) == IF s = <<>> THEN {} ELSE {s[1]} \cup SeqToSet(Tail(s))

\* get_costs_from_bigquery, its first step: detect the table; "if not
\* table_id:" report the missing export and return [].
costs_detect(r, ds, failAt, rows) ==
    LET res == detect_bigquery_export(r.script, ds, r.args.billing_account,
                                      r.args.debug, failAt)
        r1  == [r EXCEPT !.calls = @ \o DetectCalls(res.calls),
                         !.failed = IF res.failed THEN @ \cup {"detect"} ELSE @,
                         !.out = @ \cup SeqToSet(res.printed)]
    IN  IF res.value = None
        THEN [r1 EXCEPT !.out = @ \cup {"BigQuery billing export not found"}
                                  \cup (IF r.script = "gcpbill"
                                        THEN {"To enable billing export"} ELSE {}),
                        !.costs = <<>>, !.pc = "output"]
        ELSE [r1 EXCEPT !.table_id = res.value, !.rows = rows,
                        !.out = @ \cup {"Using BigQuery table"},
                        !.pc = IF r.script = "gcpbill" THEN "creation_time" ELSE "query"]

RunDetect ==
    /\ run # <<>> /\ run.pc = "detect"
    /\ \E ds \in RunProjects, rows \in RunTables :
         \E failAt \in 0..(1 + 2 * Len(ds)) :
            run' = costs_detect(run, ds, failAt, rows)
    /\ UNCHANGED <<detectVars, categoryVars, queryVars, diag, setup>>

\* _get_table_creation_time (gcpbill.py): the age of the table, None when
\* get_table fails.
get_table_creation_time(r, ok, age) ==
    LET r1 == [r EXCEPT !.calls = Append(@, "get_table"), !.pc = "check_data",
                        !.out = IF r.args.debug
                                THEN @ \cup {"Debug: Getting table creation time"} ELSE @]
    IN  IF ok THEN [r1 EXCEPT !.creation_info = Some([age |-> age])]
        ELSE [r1 EXCEPT !.creation_info = None,
                        !.failed = @ \cup {"get_table"},
                        !.out = IF r.args.debug
                                THEN @ \cup {"Debug: Error getting table creation time"} ELSE @]

RunCreationTime ==
    /\ run # <<>> /\ run.pc = "creation_time"
    /\ \E ok \in BOOLEAN, age \in {WaitHours * SecondsPerHour - 1, WaitHours * SecondsPerHour} :
         run' = get_table_creation_time(run, ok, age)
    /\ UNCHANGED <<detectVars, categoryVars, queryVars, diag, setup>>

\* Mutant of check_table_has_data: the run goes on to the coverage check and
\* the cost query whatever the row count.
check_table_has_data_unchecked(r, ok) ==
    [r EXCEPT !.calls = Append(@, "query COUNT"),
              !.failed = IF ok THEN @ ELSE @ \cup {"query COUNT"},
              !.pc = "coverage"]

\* _check_table_has_data (gcpbill.py): COUNT(*) > 0, False when the query
\* fails; then "if not table_has_data:" the advice and return [].
check_table_has_data(r, ok) ==
    LET r1  == [r EXCEPT !.calls = Append(@, "query COUNT"),
                         !.failed = IF ok THEN @ ELSE @ \cup {"query COUNT"},
                         !.out = IF ~ok /\ r.args.debug
                                 THEN @ \cup {"Debug: Error checking table data"} ELSE @]
        has == ok /\ Len(r.rows) > 0
    IN  IF has THEN [r1 EXCEPT !.pc = "coverage"]
        ELSE [r1 EXCEPT !.pc = "output", !.costs = <<>>,
                        !.out = @ \cup {"Table exists but contains no data."}
                                  \cup (IF r.creation_info = None
                                        THEN {"Billing data export may not be configured"}
                                        ELSE IF HoursAgoUnder24(r.creation_info[1].age)
                                        THEN {"Data should be available in ~ hours"}
                                        ELSE {"It's been over 24 hours since table creation."})]

RunCheckData ==
    /\ run # <<>> /\ run.pc = "check_data"
    /\ \E ok \in BOOLEAN : run' = check_table_has_data(run, ok)
    /\ UNCHANGED <<detectVars, categoryVars, queryVars, diag, setup>>

DateLess(a, b) == days_from_civil(a) < days_from_civil(b)

\* _check_date_range_coverage (gcpbill.py): MIN and MAX of
\* DATE(usage_start_time), and whether the requested dates lie outside them;
\* None when the query fails or strptime raises inside the try block.
check_date_range_coverage(r, ok) ==
    LET r1 == [r EXCEPT !.calls = Append(@, "query MIN MAX"), !.pc = "query"]
        days == { days_from_civil(DATE(r.rows[i].usage_start_time)) : i \in 1..Len(r.rows) }
    IN  IF ~ok
        THEN [r1 EXCEPT !.date_range_info = None,
                        !.failed = @ \cup {"query MIN MAX"},
                        !.out = IF r.args.debug
                                THEN @ \cup {"Debug: Error checking date range"} ELSE @]
        ELSE IF days # {} /\ (strptime(r.start_date) = <<>> \/ strptime(r.end_date) = <<>>)
        THEN [r1 EXCEPT !.date_range_info = None,
                        !.out = IF r.args.debug
                                THEN @ \cup {"Debug: Error checking date range"} ELSE @]
        ELSE IF days = {}
        THEN [r1 EXCEPT !.date_range_info =
                 Some([has_data |-> FALSE, min_date |-> None, max_date |-> None,
                       outside_range |-> TRUE])]
        ELSE LET min_date == civil_from_days(CHOOSE x \in days : \A y \in days : x <= y)
                 max_date == civil_from_days(CHOOSE x \in days : \A y \in days : x >= y)
                 requested_start == strptime(r.start_date)
                 requested_end   == strptime(r.end_date)
             IN  [r1 EXCEPT !.date_range_info =
                     Some([has_data |-> TRUE, min_date |-> strftime(min_date),
                           max_date |-> strftime(max_date),
                           outside_range |-> DateLess(requested_end, min_date)
                                             \/ DateLess(max_date, requested_start)])]

RunCoverage ==
    /\ run # <<>> /\ run.pc = "coverage"
    /\ \E ok \in BOOLEAN : run' = check_date_range_coverage(run, ok)
    /\ UNCHANGED <<detectVars, categoryVars, queryVars, diag, setup>>

\* The provider's type check of the grouping expression.  usage_start_time is
\* a TIMESTAMP (the query compares it with TIMESTAMP('...')); FORMAT_DATE takes
\* a DATE and a TIMESTAMP is not coerced to one, so the 'month' expression of
\* gcpbill.py, FORMAT_DATE("%Y-%m", usage_start_time), is rejected and the
\* query fails.  DATE(usage_start_time) and the other expressions are valid.
GroupExprWellTyped(script, group_by) == ~(script = "gcpbill" /\ group_by = "month")

\* The results the provider may give the cost query of the run: none when a
\* date literal is invalid or the grouping expression is ill-typed (the query
\* fails).
RunQueryResults(r) ==
    IF \/ TimestampLiteral(r.start_date) = <<>>
       \/ TimestampLiteral(r.end_date) = <<>>
       \/ ~GroupExprWellTyped(r.script, r.args.group_by)
    THEN {}
    ELSE QueryResults(BuildQuery(r.script, r.table_id, TimestampLiteral(r.start_date),
                                 TimestampLiteral(r.end_date), r.args.project,
                                 r.args.group_by),
                      r.rows)

\* Mutant of cost_query: the rows appended before the failure are returned.
cost_query_partial(r, ok, result, stop) ==
    LET r1 == [r EXCEPT !.calls = Append(@, "query costs"), !.pc = "output",
                        !.out = IF r.script = "viewer" /\ r.args.debug
                                THEN @ \cup {"Generated Query:"} ELSE @]
    IN  IF ~ok \/ stop < Len(result)
        THEN [r1 EXCEPT !.costs = IF ok THEN SubSeq(CostsOf(result, r.args.group_by), 1, stop)
                                  ELSE <<>>,
                        !.fetched = IF ok THEN stop ELSE 0,
                        !.failed = @ \cup {"query costs"},
                        !.out = @ \cup {"Error querying BigQuery"}]
        ELSE [r1 EXCEPT !.costs = CostsOf(result, r.args.group_by),
                        !.fetched = Len(result)]

\* The try block around the cost query: query(), result() and the loop that
\* appends a dict per row.  ok = FALSE: query() or result() raises; stop <
\* Len(result): fetching the next row raises after stop rows were appended.
\* The handler prints the error and returns [].  gcp-bill-viewer.py prints the
\* query text before the try block in debug mode; gcpbill.py reports an empty
\* result with the available range when it has one.
cost_query(r, ok, result, stop) ==
    LET r1 == [r EXCEPT !.calls = Append(@, "query costs"), !.pc = "output",
                        !.out = IF r.script = "viewer" /\ r.args.debug
                                THEN @ \cup {"Generated Query:"} ELSE @]
    IN  IF ~ok \/ stop < Len(result)
        THEN [r1 EXCEPT !.costs = <<>>,
                        !.fetched = IF ok THEN stop ELSE 0,
                        !.failed = @ \cup {"query costs"},
                        !.out = @ \cup {"Error querying BigQuery"}]
        ELSE [r1 EXCEPT !.costs = CostsOf(result, r.args.group_by),
                        !.fetched = Len(result),
                        !.out = IF r.script = "gcpbill" /\ result = <<>>
                                   /\ r.date_range_info # None
                                THEN @ \cup {"No costs found in requested range"} ELSE @]

RunQuery ==
    /\ run # <<>> /\ run.pc = "query"
    /\ \/ run' = cost_query(run, FALSE, <<>>, 0)
       \/ \E result \in RunQueryResults(run) :
            \E stop \in 0..Len(result) : run' = cost_query(run, TRUE, result, stop)
    /\ UNCHANGED <<detectVars, categoryVars, queryVars, diag, setup>>

\* The end of "if args.costs:" and of main(): gcp-bill-viewer.py always
\* calls format_output; gcpbill.py calls it for a non-empty list and prints
\* "Total: 0.00 USD" (table format) for an empty one.
main_output(r) ==
    IF r.script = "viewer"
        THEN LET r1 == format_output(r, "costs", r.costs)
             IN  IF r.costs # <<>> /\ r.args.format = "table"
                 THEN Exit([r1 EXCEPT !.out = @ \cup {"Total:"}], 0)
                 ELSE Exit(r1, 0)
        ELSE IF r.costs # <<>>
        THEN LET r1 == format_output(r, "costs", r.costs)
             IN  IF r.args.format = "table"
                 THEN Exit([r1 EXCEPT !.out = @ \cup {"Total:"}], 0)
                 ELSE Exit(r1, 0)
        ELSE IF r.args.format = "table"
        THEN Exit([r EXCEPT !.out = @ \cup {"Total: 0.00 USD"}], 0)
        ELSE Exit(r, 0)

RunOutput ==
    /\ run # <<>> /\ run.pc = "output"
    /\ run' = main_output(run)
    /\ UNCHANGED <<detectVars, categoryVars, queryVars, diag, setup>>

RunNext ==
    \/ RunStart
    \/ RunAuthenticate
    \/ RunListAccounts
    \/ RunListProjects
    \/ RunCosts
    \/ RunDetect
    \/ RunCreationTime
    \/ RunCheckData
    \/ RunCoverage
    \/ RunQuery
    \/ RunOutput

SpecRun == RunInit /\ [][RunNext]_vars

\* The output step of main() has run on the list the cost query returned.
OutputStepRan ==
    IF run.script = "viewer"
    THEN \E k \in 1..Len(run.shown) :
           run.shown[k] = [what |-> "costs", rows |-> 0, form |-> "No data to display."]
    ELSE /\ \A k \in 1..Len(run.shown) : run.shown[k].what # "costs"
         /\ run.args.format = "table" <=> "Total: 0.00 USD" \in run.out

\* C9: in both viewer scripts a failure of the cost query (query(), result()
\* or the fetch of a row) is caught and logged, and get_costs_from_bigquery
\* returns the empty list, never the rows appended before the failure; no
\* exception propagates and main() goes on to its output step and ends
\* normally.
C9_QueryFailureReturnsEmpty ==
    (run # <<>> /\ "query costs" \in run.failed) =>
        /\ run.costs = <<>>
        /\ "Error querying BigQuery" \in run.out
        /\ ~run.traceback
        /\ run.pc \in {"output", "exit"}
        /\ run.pc = "exit" => (run.exit_code = 0 /\ OutputStepRan)

\* C9's case: fetching a row failed after at least one row had been appended
\* to the list, and the run has come to its end.
C9_Witness ==
    /\ run # <<>>
    /\ "query costs" \in run.failed
    /\ run.fetched > 0
    /\ run.costs = <<>>
    /\ run.pc = "exit"

CostsOnly ==
    /\ run # <<>>
    /\ run.args.costs /\ ~run.args.list_accounts /\ ~run.args.list_projects

\* A date argument in YYYY-MM-DD form: four digits, two digits and two digits,
\* separated by dashes, naming a day of the calendar.
IsYYYYMMDD(s) ==
    /\ Len(s) = 10
    /\ s[5] = "-" /\ s[8] = "-"
    /\ \A i \in {1, 2, 3, 4, 6, 7, 9, 10} : IsDigit(s[i])
    /\ NumVal(SubSeq(s, 6, 7)) \in 1..12
    /\ NumVal(SubSeq(s, 9, 10)) \in 1..DaysInMonth(NumVal(SubSeq(s, 1, 4)), NumVal(SubSeq(s, 6, 7)))

FailureReport(f) ==
    IF f = "detect" THEN "Debug: Error during detection"
    ELSE IF f = "get_table" THEN "Debug: Error getting table creation time"
    ELSE IF f = "query COUNT" THEN "Debug: Error checking table data"
    ELSE IF f = "query MIN MAX" THEN "Debug: Error checking date range"
    ELSE IF f = "query costs" THEN "Error querying BigQuery"
    ELSE IF f = "list_billing_accounts" THEN "Error listing billing accounts"
    ELSE IF f = "list_project_billing_info" THEN "Error listing projects"
    ELSE "Error"

CountOf(s, x) == Cardinality({ k \in 1..Len(s) : s[k] = x })

\* C11: in the viewer scripts no provider call is retried (each step's call is
\* issued at most once) and every failed provider call has its failure
\* printed, also a listing failure inside detect_bigquery_export when --debug
\* is off.
C11_EveryFailureReported ==
    run # <<>> =>
        /\ \A c \in {"get_table", "query COUNT", "query MIN MAX", "query costs"} :
             CountOf(run.calls, c) <= 1
        /\ \A f \in run.failed \ {"authenticate"} : FailureReport(f) \in run.out

\* What the code keeps of C11: no call is issued a second time, and with
\* --debug every failure is printed; without --debug the failures of the cost
\* query and of the billing listings are printed.
C11_ReportedWithDebug ==
    run # <<>> =>
        /\ \A c \in {"get_table", "query COUNT", "query MIN MAX", "query costs"} :
             CountOf(run.calls, c) <= 1
        /\ \A f \in run.failed \ {"authenticate"} :
             (run.args.debug \/ f \in {"query costs", "list_billing_accounts",
                                       "list_project_billing_info"})
               => FailureReport(f) \in run.out

\* C12: a provider call that fails with permission denied does not end the
\* run: when listing the billing accounts fails (during --list-accounts, or
\* during --list-projects without --billing-account) the error is reported and
\* the run goes on to the next requested step instead of exiting.
C12_DeniedListingNonFatal ==
    (run # <<>> /\ "list_billing_accounts" \in run.failed) =>
        /\ "Error listing billing accounts" \in run.out
        /\ ~(run.pc = "exit" /\ run.exit_code = 1)

\* What the code keeps of C12: a failure of list_project_billing_info is
\* reported and the run goes on; it ends with code 1 only for another reason.
C12_DeniedProjectListingNonFatal ==
    (run # <<>> /\ "list_project_billing_info" \in run.failed) =>
        /\ "Error listing projects" \in run.out
        /\ (run.pc = "exit" /\ run.exit_code = 1) =>
              \/ run.args.costs /\ run.args.billing_account = None
              \/ run.args.costs /\ run.script = "gcpbill"
                   /\ (strptime(run.start_date) = <<>> \/ strptime(run.end_date) = <<>>)

(***************************************************************************)
(* SpecGroupBy: the --group-by argument of either viewer script, from      *)
(* argparse to the rows of the cost query, for each of the six values the  *)
(* interface names.                                                        *)
(***************************************************************************)
AllGroupBy == {"service", "project", "day", "month", "ai", "model"}

\* "choices=[...]" of --group-by: argparse ends the process with code 2 for a
\* value that is not among the script's choices.
group_by_choices(script) == IF script = "viewer" THEN ViewerGroupBy ELSE GcpbillGroupBy

GroupByArg(script) ==
    /\ q_pc = "call"
    /\ \E group_by \in AllGroupBy :
         /\ q_in' = [q_in EXCEPT !.script = script, !.group_by = group_by]
         /\ IF group_by \notin group_by_choices(script)
            THEN /\ q_pc' = "rejected"
                 /\ q_out' = q_out
            ELSE LET q == BuildQuery(script, export_table, q_in.start_date, q_in.end_date,
                                     q_in.project_filter, group_by)
                 IN  IF ~GroupExprWellTyped(script, group_by)
                     THEN /\ q_pc' = "failed"
                          /\ q_out' = [query |-> q, result |-> <<>>, costs |-> <<>>]
                     ELSE /\ q_pc' = "done"
                          /\ \E result \in QueryResults(q, table_rows) :
                               q_out' = [query |-> q, result |-> result,
                                         costs |-> CostsOf(result, group_by)]
    /\ UNCHANGED <<table_rows, detectVars, categoryVars, diag, run, setup>>

ViewerGroupByArg == GroupByArg("viewer")

GcpbillGroupByArg == GroupByArg("gcpbill")

GroupByNext == ViewerGroupByArg \/ GcpbillGroupByArg

SpecGroupBy == QueryInit /\ [][GroupByNext]_vars

\* The dimension a --group-by value names, on a row of the export table.
Dimension(group_by, row) ==
    IF group_by = "service" THEN <<"service", row.service_description>>
    ELSE IF group_by = "project" THEN <<"project", row.project_id>>
    ELSE IF group_by = "day" THEN <<"day", row.usage_start_time \div TicksPerDay>>
    ELSE IF group_by = "month"
    THEN <<"month", DATE(row.usage_start_time)[1], DATE(row.usage_start_time)[2]>>
    ELSE IF group_by = "ai" THEN <<"ai", ai_category(row)>>
    ELSE <<"model", model_category(row)>>

\* The query puts two rows of the table into one category exactly when they
\* agree in the dimension.
GroupsByDimension ==
    \A i, j \in 1..Len(table_rows) :
        (CategoryOf(q_out.query, table_rows[i]) = CategoryOf(q_out.query, table_rows[j]))
          <=> (Dimension(q_in.group_by, table_rows[i]) = Dimension(q_in.group_by, table_rows[j]))

\* C13: the cost CLI accepts each of the six --group-by values service,
\* project, day, month, ai and model, and for each of them the query groups by
\* the dimension the value names; none falls back to grouping by service.
C13_SixGroupByValues ==
    q_pc # "call" => (q_pc = "done" /\ GroupsByDimension)

\* What the code keeps of C13: a script rejects exactly the values that are not
\* among its own four choices, the query of gcpbill.py for 'month' fails, and
\* every other value groups by its dimension.
C13_OwnChoicesGroup ==
    /\ q_pc = "rejected" <=> (q_pc # "call" /\ q_in.group_by \notin group_by_choices(q_in.script))
    /\ q_pc = "failed" <=> (q_pc # "call" /\ q_in.script = "gcpbill" /\ q_in.group_by = "month")
    /\ q_pc = "done" => GroupsByDimension

(***************************************************************************)
(* setup_bigquery_export.py: one run of main().                            *)
(***************************************************************************)
\* Projects of the provider; the credentials' default one is project_id.
SetupProjects == {"proj", "other"}

SetupDatasetNames == {"billing_export", "custom"}

\* The account id as typed on the command line.
SetupAccounts == { <<"A","-","B">>, <<"A","_","B">> }

\* The table the provider creates for the account once the export is linked.
provider_export_table == gcp_billing_export_v1_ \o <<"A","_","B">>

DatasetPaths == SetupProjects \X SetupDatasetNames

\* The provider's datasets: for every '<project>.<dataset>', None when it does
\* not exist, otherwise Some(the set of its table ids).
Clouds == [DatasetPaths -> {None, Some({}), Some({provider_export_table})}]

\* Values of the environment variable GOOGLE_APPLICATION_CREDENTIALS:
\* None when it is not set; it may be set to the empty string.
CredsEnv == {None, Some("/key.json"), Some("")}

SetupArgs ==
    [ setup : BOOLEAN, billing_account : SetupAccounts,
      project : {None} \cup { Some(p) : p \in SetupProjects }, dataset : SetupDatasetNames,
      delete_dataset : BOOLEAN ]

\* The state at the start of a run of main(): the arguments, the provider's
\* datasets, the environment variable; run_no counts the runs made with the
\* same arguments and cloud1 is the provider's state the run before left.
SetupRun(a, c, e, n, c1) ==
    [ args |-> a, pc |-> "start", exit_code |-> None,
      traceback |-> FALSE, out |-> {}, calls |-> <<>>,
      failed |-> {}, visited |-> <<>>,
      env |-> e, env0 |-> e, env_in_default |-> e,
      cloud |-> c, cloud0 |-> c, run_no |-> n, cloud1 |-> c1 ]

SetupInit ==
    /\ \E a \in SetupArgs, c \in Clouds, e \in CredsEnv :
         setup = SetupRun(a, c, e, 1, None)
    /\ DetectIdle
    /\ CategoryIdle
    /\ QueryIdle
    /\ DiagIdle
    /\ RunIdle

\* A request sent to the provider: the operation and the project, or the
\* '<project>.<dataset>', it names.
Call(op, target) == [op |-> op, target |-> target]

\* The run enters a step of main(); visited is the list of the steps taken.
Visit(s, step) == [s EXCEPT !.visited = Append(@, step)]

\* main(), lines 300-304: --setup without --project ends the run with code 1
\* before the object is constructed.
setup_main_start(s) ==
    IF s.args.setup /\ s.args.project = None
    THEN Exit([s EXCEPT !.out = @ \cup {"Error: --project is required for --setup"}], 1)
    ELSE [s EXCEPT !.pc = "authenticate"]

SetupStart ==
    /\ setup # <<>> /\ setup.pc = "start"
    /\ setup' = setup_main_start(Visit(setup, "start"))
    /\ UNCHANGED <<detectVars, categoryVars, queryVars, diag, run>>

\* Mutant of setup_authenticate: the variable is put back only when
\* default() returned.
setup_authenticate_restore_on_success(s, outcome) ==
    LET original_creds == s.env
        t == [s EXCEPT !.env_in_default = None]
    IN  IF outcome = "ok"
        THEN [t EXCEPT !.env = original_creds,
                       !.pc = IF s.args.setup THEN "verify_access" ELSE "destroy"]
        ELSE IF outcome = "credentials"
        THEN Exit([t EXCEPT !.env = None, !.failed = @ \cup {"authenticate"},
                            !.out = @ \cup {"Error: Not authenticated with Google Cloud.",
                                            "Please authenticate using one of these methods:"}], 1)
        ELSE Uncaught([t EXCEPT !.env = None], "authenticate")

\* BigQueryExportSetup._authenticate(): the variable is removed while
\* default() runs and put back in the finally block when it was set.
\* DefaultCredentialsError and RefreshError print the ways to authenticate and
\* sys.exit(1); no handler catches another exception.
setup_authenticate(s, outcome) ==
    LET original_creds == s.env
        during == None
        restored == IF original_creds # None THEN original_creds ELSE during
        t == [s EXCEPT !.env_in_default = during, !.env = restored]
    IN  IF outcome = "ok"
        THEN [t EXCEPT !.pc = IF s.args.setup THEN "verify_access" ELSE "destroy"]
        ELSE IF outcome = "credentials"
        THEN Exit([t EXCEPT !.failed = @ \cup {"authenticate"},
                            !.out = @ \cup {"Error: Not authenticated with Google Cloud.",
                                            "Please authenticate using one of these methods:"}], 1)
        ELSE Uncaught(t, "authenticate")

SetupAuthenticate ==
    /\ setup # <<>> /\ setup.pc = "authenticate"
    /\ \E outcome \in AuthOutcomes : setup' = setup_authenticate(Visit(setup, "authenticate"), outcome)
    /\ UNCHANGED <<detectVars, categoryVars, queryVars, diag, run>>

\* What list_datasets does in Step 1.
AccessOutcomes == {"ok", "NotFound", "Forbidden", "other"}

\* Mutant of setup_verify_access: a failed access check is reported and the
\* run goes on to Step 2.
setup_verify_access_no_exit(s, outcome) ==
    LET t == [s EXCEPT !.calls = Append(@, Call("list_datasets", s.args.project))]
    IN  IF outcome = "ok"
        THEN [t EXCEPT !.out = @ \cup {"Project verified"}, !.pc = "create_dataset"]
        ELSE [t EXCEPT !.failed = @ \cup {"list_datasets"},
                       !.out = @ \cup {"Error accessing project"},
                       !.pc = "create_dataset"]

\* setup_export(), Step 1 (lines 77-93): one listing of the project's
\* datasets; every failure ends the run with code 1.
setup_verify_access(s, outcome) ==
    LET t == [s EXCEPT !.calls = Append(@, Call("list_datasets", s.args.project))]
    IN  IF outcome = "ok"
        THEN [t EXCEPT !.out = @ \cup {"Project verified"}, !.pc = "create_dataset"]
        ELSE Exit([t EXCEPT !.failed = @ \cup {"list_datasets"},
                            !.out = @ \cup {IF outcome = "NotFound" THEN "Project not found"
                                            ELSE IF outcome = "Forbidden"
                                            THEN "Access denied to project"
                                            ELSE "Error accessing project"}], 1)

SetupVerifyAccess ==
    /\ setup # <<>> /\ setup.pc = "verify_access"
    /\ \E outcome \in AccessOutcomes : setup' = setup_verify_access(Visit(setup, "verify_access"), outcome)
    /\ UNCHANGED <<detectVars, categoryVars, queryVars, diag, run>>

\* Mutant of create_dataset: the dataset is created anew, without its tables.
create_dataset_anew(cloud, path, exists_ok) ==
    [raised |-> FALSE, cloud |-> [cloud EXCEPT ![path] = Some({})]]

\* The provider's create_dataset: a new, empty dataset; an existing dataset is
\* left as it is, and the call raises Conflict unless exists_ok is given.
create_dataset(cloud, path, exists_ok) ==
    IF cloud[path] = None
    THEN [raised |-> FALSE, cloud |-> [cloud EXCEPT ![path] = Some({})]]
    ELSE [raised |-> ~exists_ok, cloud |-> cloud]

\* setup_export(), Step 2 (lines 95-121): create_dataset then list_tables in
\* one try; a failure of either ends the run with code 1.
setup_create_dataset(s, createOk, listOk) ==
    LET path == <<s.args.project[1], s.args.dataset>>
        t1 == [s EXCEPT !.calls = Append(@, Call("create_dataset", path))]
        res == create_dataset(s.cloud, path, TRUE)
    IN  IF ~createOk
        THEN Exit([t1 EXCEPT !.failed = @ \cup {"create_dataset"},
                             !.out = @ \cup {"Error creating dataset"}], 1)
        ELSE IF res.raised
        THEN Exit([t1 EXCEPT !.failed = @ \cup {"create_dataset Conflict"},
                             !.out = @ \cup {"Error creating dataset"}], 1)
        ELSE LET t2 == [t1 EXCEPT !.cloud = res.cloud,
                                  !.out = @ \cup {"Dataset created/verified"},
                                  !.calls = Append(@, Call("list_tables", path))]
             IN  IF ~listOk
                 THEN Exit([t2 EXCEPT !.failed = @ \cup {"list_tables"},
                                      !.out = @ \cup {"Error creating dataset"}], 1)
                 ELSE [t2 EXCEPT !.out = @ \cup
                                   {IF t2.cloud[path] = Some({})
                                    THEN "Dataset is empty"
                                    ELSE "Existing tables in dataset"},
                                 !.pc = "instructions"]

SetupCreateDataset ==
    /\ setup # <<>> /\ setup.pc = "create_dataset"
    /\ \E createOk, listOk \in BOOLEAN :
         setup' = setup_create_dataset(Visit(setup, "create_dataset"), createOk, listOk)
    /\ UNCHANGED <<detectVars, categoryVars, queryVars, diag, run>>

\* The user links the export in the Console while the script waits: the
\* provider creates the account's table in the dataset.
link_export(cloud, path) ==
    IF cloud[path] = None THEN cloud
    ELSE [cloud EXCEPT ![path] = Some(@[1] \cup {provider_export_table})]

\* setup_export(), Step 3 up to the prompt (lines 123-176): the manual steps,
\* the browser, and input(), which ends with ENTER or with EOFError.
setup_instructions(s, browserOk, interactive, linked) ==
    LET path == <<s.args.project[1], s.args.dataset>>
    IN  [s EXCEPT !.out = @ \cup {"REQUIRED MANUAL STEP"}
                          \cup {IF browserOk THEN "Browser opened"
                                ELSE "Could not open browser automatically"}
                          \cup {IF interactive THEN "Verifying configuration..."
                                ELSE "Running in non-interactive mode"},
                  !.cloud = IF linked THEN link_export(@, path) ELSE @,
                  !.pc = "verify_table"]

SetupInstructions ==
    /\ setup # <<>> /\ setup.pc = "instructions"
    /\ \E browserOk, interactive, linked \in BOOLEAN :
         setup' = setup_instructions(Visit(setup, "instructions"), browserOk, interactive, linked)
    /\ UNCHANGED <<detectVars, categoryVars, queryVars, diag, run>>

\* Lines 178-179.
expected_table(billing_account_id) ==
    gcp_billing_export_v1_ \o Replace(billing_account_id, "-", "_")

\* setup_export(), lines 181-210: the table is looked for in the dataset's
\* listing; a failed listing is reported and the run goes on to the setup
\* information; main() returns.
setup_verify_table(s, listOk) ==
    LET path == <<s.args.project[1], s.args.dataset>>
        t == [s EXCEPT !.calls = Append(@, Call("list_tables", path))]
        tables == IF s.cloud[path] = None THEN {} ELSE s.cloud[path][1]
        table_found == \E table \in tables :
                          Contains(table, expected_table(s.args.billing_account))
    IN  Exit([t EXCEPT !.failed = IF listOk /\ s.cloud[path] # None THEN @
                                  ELSE @ \cup {"list_tables"},
                       !.out = @ \cup {IF ~listOk \/ s.cloud[path] = None
                                       THEN "Could not verify table creation"
                                       ELSE IF table_found
                                       THEN "Billing export table created"
                                       ELSE "Table not found yet"}
                                 \cup {"=== Setup Information ==="}], 0)

SetupVerifyTable ==
    /\ setup # <<>> /\ setup.pc = "verify_table"
    /\ \E listOk \in BOOLEAN : setup' = setup_verify_table(Visit(setup, "verify_table"), listOk)
    /\ UNCHANGED <<detectVars, categoryVars, queryVars, diag, run>>

\* The provider's delete_dataset with delete_contents=True: the dataset and
\* its tables are gone; for a dataset that does not exist it raises NotFound
\* unless not_found_ok is given.
delete_dataset(cloud, path, not_found_ok) ==
    IF cloud[path] = None /\ ~not_found_ok
    THEN [raised |-> TRUE, cloud |-> cloud]
    ELSE [raised |-> FALSE, cloud |-> [cloud EXCEPT ![path] = None]]

\* destroy_export(), lines 222-223.
destroy_project(s) ==
    IF s.args.project = None THEN project_id ELSE s.args.project[1]

\* Lines 236-250 of destroy_export(): one delete_dataset of
\* '<project>.<dataset>' with not_found_ok=True; an exception is reported.
destroy_delete(s, deleteOk) ==
    LET path == <<destroy_project(s), s.args.dataset>>
        t == [s EXCEPT !.calls = Append(@, Call("delete_dataset", path))]
        res == delete_dataset(s.cloud, path, TRUE)
    IN  IF ~deleteOk
        THEN [t EXCEPT !.failed = @ \cup {"delete_dataset"},
                       !.out = @ \cup {"Error deleting dataset"}]
        ELSE IF res.raised
        THEN [t EXCEPT !.failed = @ \cup {"delete_dataset NotFound"},
                       !.out = @ \cup {"Error deleting dataset"}]
        ELSE [t EXCEPT !.cloud = res.cloud, !.out = @ \cup {"Dataset deleted"}]

\* Lines 257-260 of destroy_export(): the closing lines, printed in every
\* case; main() returns.
destroy_complete(s) ==
    Exit([s EXCEPT !.out = @ \cup {"=== Destroy Complete ===",
                                   "Billing export has been disabled."}
                             \cup (IF s.args.delete_dataset
                                   THEN {"Dataset has been deleted."} ELSE {})], 0)

\* Mutant of destroy_export: the dataset is deleted whether or not
\* --delete-dataset is given.
destroy_export_ignoring_flag(s, deleteOk) ==
    destroy_complete(destroy_delete(
        [s EXCEPT !.out = @ \cup {"Step 1: Disabling billing export..."}], deleteOk))

\* destroy_export(): the manual steps; with --delete-dataset the deletion,
\* without it "Keeping dataset"; then the closing lines.
destroy_export(s, deleteOk) ==
    LET t0 == [s EXCEPT !.out = @ \cup {"Step 1: Disabling billing export..."}]
    IN  destroy_complete(IF s.args.delete_dataset
                         THEN destroy_delete(t0, deleteOk)
                         ELSE [t0 EXCEPT !.out = @ \cup {"Keeping dataset"}])

DestroyExport ==
    /\ setup # <<>> /\ setup.pc = "destroy"
    /\ \E deleteOk \in BOOLEAN : setup' = destroy_export(Visit(setup, "destroy"), deleteOk)
    /\ UNCHANGED <<detectVars, categoryVars, queryVars, diag, run>>

SetupNext ==
    \/ SetupStart
    \/ SetupAuthenticate
    \/ SetupVerifyAccess
    \/ SetupCreateDataset
    \/ SetupInstructions
    \/ SetupVerifyTable
    \/ DestroyExport

SpecSetup == SetupInit /\ [][SetupNext]_vars

\* Text that tells the user how to authenticate.
RemediationText ==
    {"Please authenticate using one of these methods:",
     "Please run: gcloud auth application-default login"}

\* C14: in setup_bigquery_export.py, when credential resolution has failed for
\* any reason, remediation text has been printed, the exit code is 1 and no
\* provider call has been issued.
C14_AuthFailureRemediated ==
    (setup # <<>> /\ "authenticate" \in setup.failed)
        => /\ setup.out \cap RemediationText # {}
           /\ setup.pc = "exit" /\ setup.exit_code = 1
           /\ setup.calls = <<>>

\* The part of C14 the setup script keeps: a failed credential resolution ends
\* the run with code 1 and no provider call is ever issued.
C14_AuthFailureFatal ==
    (setup # <<>> /\ "authenticate" \in setup.failed)
        => /\ setup.pc = "exit" /\ setup.exit_code = 1
           /\ setup.calls = <<>>

\* The same part in the viewer scripts.
C14_ViewerAuthFailureFatal ==
    (run # <<>> /\ "authenticate" \in run.failed)
        => /\ run.pc = "exit" /\ run.exit_code = 1
           /\ run.calls = <<>>

\* The BigQuery calls get_costs_from_bigquery makes after detection.
QueryCalls == {"get_table", "query COUNT", "query MIN MAX", "query costs"}

\* C15: when detection returned not-found, the missing export has been
\* reported together with setup instructions, no BigQuery query has been
\* issued and the result is the empty list.
C15_NotFoundWithInstructions ==
    (run # <<>> /\ "BigQuery billing export not found" \in run.out)
        => /\ "To enable billing export" \in run.out
           /\ SeqToSet(run.calls) \cap QueryCalls = {}
           /\ run.costs = <<>>

\* The part of C15 both viewer scripts keep: no query and an empty list.
C15_NotFoundNoQuery ==
    (run # <<>> /\ "BigQuery billing export not found" \in run.out)
        => /\ run.table_id = None
           /\ SeqToSet(run.calls) \cap QueryCalls = {}
           /\ run.costs = <<>>

(***************************************************************************)
(* The text of the cost query.  Both scripts build it with f-strings: the  *)
(* value of --project is put between two quote characters, unchanged       *)
(* (gcp-bill-viewer.py lines 204-219, gcpbill.py lines 237-253), and the   *)
(* text is sent in one bq_client.query call.  BigQuery runs a text of      *)
(* several statements separated by semicolons as a multi-statement query.  *)
(* The text is modelled as a sequence of tokens: "'" is the quote          *)
(* character, ";" the semicolon, "SELECT" the head of a SELECT statement,  *)
(* "D" the head of a statement that changes data (CREATE TABLE ... AS,     *)
(* DROP, DELETE, INSERT), any other token is text without quote or         *)
(* semicolon.                                                              *)
(***************************************************************************)
MaxFilterLen == 4

FilterTokens == {"x", "'", ";", "D"}

\* Values of --project.
ProjectFilters == SeqsUpTo(FilterTokens, MaxFilterLen)

\* query = f"""SELECT ... WHERE usage_start_time >= TIMESTAMP('{start_date}')
\* AND usage_start_time < TIMESTAMP('{end_date}')"""; "if project_filter:"
\* query += f" AND project.id = '{project_filter}'"; query += "GROUP BY ...".
QueryText(start_date, end_date, project_filter) ==
    <<"SELECT", "'">> \o start_date \o <<"'", "AND", "'">> \o end_date \o <<"'">>
    \o (IF project_filter # <<>>
        THEN <<"AND project.id =", "'">> \o project_filter \o <<"'">>
        ELSE <<>>)
    \o <<"GROUP BY">>

\* The statements of a text: it is cut at every semicolon that is not inside
\* a string literal; a quote character opens or closes a literal.
RECURSIVE Statements(_, _, _)
Statements(text, in_literal, current) ==
    IF text = <<>> THEN <<current>>
    ELSE IF text[1] = "'"
    THEN Statements(Tail(text), ~in_literal, Append(current, text[1]))
    ELSE IF text[1] = ";" /\ ~in_literal
    THEN <<current>> \o Statements(Tail(text), FALSE, <<>>)
    ELSE Statements(Tail(text), in_literal, Append(current, text[1]))

\* Every string literal of the text is closed.
LiteralsClosed(text) ==
    Cardinality({ i \in 1..Len(text) : text[i] = "'" }) % 2 = 0

\* The kind of a statement, by its head.
StatementKind(st) ==
    IF st = <<>> THEN "error"
    ELSE IF st[1] = "SELECT" THEN "select"
    ELSE IF st[1] = "D" THEN "change"
    ELSE "error"

\* The kinds of the statements the provider runs for a text; none when the
\* text does not parse.
StatementsRun(text) ==
    LET sts == Statements(text, FALSE, <<>>)
    IN  IF LiteralsClosed(text) /\ \A k \in 1..Len(sts) : StatementKind(sts[k]) # "error"
        THEN [k \in 1..Len(sts) |-> StatementKind(sts[k])]
        ELSE <<>>

\* The rows of the export table after the provider has run the statements: a
\* statement that changes data is taken to delete the rows.
RowsAfter(kinds, rows) ==
    IF \E k \in 1..Len(kinds) : kinds[k] = "change" THEN <<>> ELSE rows

QueryTextInit ==
    /\ DetectIdle
    /\ CategoryIdle
    /\ DiagIdle
    /\ RunIdle
    /\ SetupIdle
    /\ table_rows \in SeqsUpTo(BillingRows, 1)
    /\ q_in \in [ script : {"none"}, rows0 : {table_rows},
                  start_date : {<<"d">>}, end_date : {<<"d">>},
                  project_filter : ProjectFilters ]
    /\ q_out = <<>>
    /\ q_pc = "call"

\* get_costs_from_bigquery from the query text to bq_client.query(query).
IssueQueryText(script) ==
    /\ q_pc = "call"
    /\ LET text == QueryText(q_in.start_date, q_in.end_date, q_in.project_filter)
           kinds == StatementsRun(text)
       IN  /\ q_out' = [text |-> text, statements |-> kinds]
           /\ table_rows' = RowsAfter(kinds, table_rows)
    /\ q_in' = [q_in EXCEPT !.script = script]
    /\ q_pc' = "done"
    /\ UNCHANGED <<detectVars, categoryVars, diag, run, setup>>

ViewerQueryText == IssueQueryText("viewer")

GcpbillQueryText == IssueQueryText("gcpbill")

QueryTextNext == ViewerQueryText \/ GcpbillQueryText

SpecQueryText == QueryTextInit /\ [][QueryTextNext]_vars

\* The calls of the viewer scripts that list, get or SELECT.
ReadCalls ==
    {"list_billing_accounts", "list_project_billing_info", "list_datasets",
     "list_tables", "get_table", "query COUNT", "query MIN MAX", "query costs"}

\* C16: for every value of the flags, the cost query the viewer scripts issue
\* holds SELECT statements only, and the rows held by the provider are the
\* same after the call as before.
C16_OnlyReadCalls ==
    q_pc = "done"
        => /\ \A k \in 1..Len(q_out.statements) : q_out.statements[k] = "select"
           /\ table_rows = q_in.rows0

\* A state in which the text sent holds a statement, taken from the value of
\* --project, that changes data, and the provider has run it.
C16_InjectedStatement ==
    /\ q_pc = "done"
    /\ \E k \in 1..Len(q_out.statements) : q_out.statements[k] = "change"
    /\ q_in.rows0 # <<>> /\ table_rows = <<>>

\* With a --project value that holds no quote character the text is one
\* SELECT statement and the rows are unchanged.
C16_FixedTextIsSelect ==
    (q_pc = "done" /\ \A i \in 1..Len(q_in.project_filter) : q_in.project_filter[i] # "'")
        => /\ q_out.statements = <<"select">>
           /\ table_rows = q_in.rows0

\* Every call the viewer scripts issue is one of the list, get and query
\* calls.
C16_RunCallsAreReads ==
    run # <<>> => SeqToSet(run.calls) \subseteq ReadCalls

\* The provider calls that change data.
MutatingOps == {"create_dataset", "delete_dataset"}

\* The positions of the calls with one of the operations.
CallsOf(s, ops) == { k \in 1..Len(s.calls) : s.calls[k].op \in ops }

\* Every dataset and table of the provider at the start is still there.
NothingDeleted(s) ==
    \A p \in DatasetPaths :
        s.cloud0[p] # None => (s.cloud[p] # None /\ s.cloud0[p][1] \subseteq s.cloud[p][1])

\* C17: a destroy run without --delete-dataset issues no mutating call and
\* leaves every dataset and table unchanged; with the flag it requests the
\* deletion of exactly '<project>.<dataset>', the project being the
\* credentials' default one when --project is omitted, every other dataset is
\* unchanged, the dataset is absent after a deletion that did not fail, and a
\* dataset that does not exist raises no error.  A setup run requests no
\* deletion and deletes nothing.
C17_DeleteIffFlag ==
    setup # <<>> =>
        LET s == setup
            path == << IF s.args.project = None THEN "proj" ELSE s.args.project[1],
                       s.args.dataset >>
            done == s.pc = "exit" /\ s.exit_code = 0
        IN  /\ s.args.setup => (CallsOf(s, {"delete_dataset"}) = {} /\ NothingDeleted(s))
            /\ (~s.args.setup /\ ~s.args.delete_dataset)
                 => (CallsOf(s, MutatingOps) = {} /\ s.cloud = s.cloud0)
            /\ (~s.args.setup /\ s.args.delete_dataset)
                 => /\ \A p \in DatasetPaths \ {path} : s.cloud[p] = s.cloud0[p]
                    /\ "delete_dataset NotFound" \notin s.failed
                    /\ s.calls = IF done THEN << Call("delete_dataset", path) >> ELSE <<>>
                    /\ (done /\ "delete_dataset" \notin s.failed)
                         => (s.cloud[path] = None /\ "Error deleting dataset" \notin s.out)
                    /\ (done /\ "delete_dataset" \in s.failed) => s.cloud = s.cloud0

\* A destroy run with --delete-dataset and without --project has deleted
\* 'proj.custom', which held the export table, and has left the other
\* datasets, among them 'other.custom', as they were.
C17_Witness ==
    /\ setup # <<>> /\ ~setup.args.setup /\ setup.args.delete_dataset
    /\ setup.args.project = None /\ setup.args.dataset = "custom"
    /\ setup.pc = "exit" /\ setup.exit_code = 0
    /\ setup.cloud0[<<"proj", "custom">>] = Some({provider_export_table})
    /\ setup.cloud[<<"proj", "custom">>] = None
    /\ setup.cloud[<<"other", "custom">>] = Some({provider_export_table})
    /\ setup.calls = << Call("delete_dataset", <<"proj", "custom">>) >>

\* A destroy run with --delete-dataset for a dataset that did not exist has
\* ended without an error.
C17_WitnessMissing ==
    /\ setup # <<>> /\ ~setup.args.setup /\ setup.args.delete_dataset
    /\ setup.pc = "exit" /\ setup.failed = {}
    /\ \E p \in DatasetPaths : setup.calls = << Call("delete_dataset", p) >>
                               /\ setup.cloud0[p] = None

(***************************************************************************)
(* The table names built from a billing account id.                        *)
(***************************************************************************)
MaxIdLen == 3

\* Billing account ids as typed: letters, dashes and underscores.
TypedIds == SeqsUpTo({"A", "-", "_"}, MaxIdLen)

FragmentsInit ==
    /\ CategoryIdle
    /\ QueryIdle
    /\ DiagIdle
    /\ RunIdle
    /\ SetupIdle
    /\ datasets = <<>>
    /\ d_in \in [script : {"none"}, a : TypedIds, b : TypedIds]
    /\ d_out = Pending
    /\ d_pc = "call"

\* setup_export(), lines 178-179 and 207.
setup_fragments(billing_account_id) == << expected_table(billing_account_id) >>

\* The names a script builds from an id: the patterns of
\* detect_bigquery_export in the viewer scripts, the expected table in setup.
fragments_of(script, billing_account_id) ==
    IF script = "setup" THEN setup_fragments(billing_account_id)
    ELSE common_patterns(billing_account_id)

\* The names one script builds for the two ids.
BuildFragments(script) ==
    /\ d_pc = "call"
    /\ d_in' = [d_in EXCEPT !.script = script]
    /\ d_out' = [of_a |-> fragments_of(script, d_in.a),
                 of_b |-> fragments_of(script, d_in.b)]
    /\ d_pc' = "done"
    /\ UNCHANGED <<datasets, categoryVars, queryVars, diag, run, setup>>

\* detect_bigquery_export of gcp-bill-viewer.py, lines 100-104.
ViewerFragments == BuildFragments("viewer")

\* detect_bigquery_export of gcpbill.py, lines 123-127.
GcpbillFragments == BuildFragments("gcpbill")

SetupFragments == BuildFragments("setup")

FragmentsNext == ViewerFragments \/ GcpbillFragments \/ SetupFragments

SpecFragments == FragmentsInit /\ [][FragmentsNext]_vars

\* Two ids that differ only by dash versus underscore.
SameUpToDash(a, b) ==
    /\ Len(a) = Len(b)
    /\ \A i \in 1..Len(a) : a[i] = b[i] \/ {a[i], b[i]} = {"-", "_"}

NoDash(t) == \A i \in 1..Len(t) : t[i] # "-"

\* C18: for any billing account id, the two table fragments the viewer scripts
\* look for and the table name setup expects contain no dash, and two ids that
\* differ only by dash versus underscore give the same fragments.
C18_FragmentsNormalised ==
    d_pc = "done"
        => /\ \A k \in 1..Len(d_out.of_a) : NoDash(d_out.of_a[k])
           /\ \A k \in 1..Len(d_out.of_b) : NoDash(d_out.of_b[k])
           /\ SameUpToDash(d_in.a, d_in.b) => d_out.of_a = d_out.of_b
           /\ d_in.script \in {"viewer", "gcpbill"}
                => d_out.of_a = << gcp_billing_export_v1_ \o Replace(d_in.a, "-", "_"),
                                   gcp_billing_export_resource_v1_ \o Replace(d_in.a, "-", "_") >>

\* The fragments have been built for A-A and for A_A, two different ids,
\* and they are the same.
C18_Witness ==
    /\ d_pc = "done"
    /\ d_in.a = <<"A", "-", "A">> /\ d_in.b = <<"A", "_", "A">>
    /\ d_in.script = "viewer"
    /\ d_out.of_a = d_out.of_b
    /\ d_out.of_a[1] = gcp_billing_export_v1_ \o <<"A", "_", "A">>

(***************************************************************************)
(* Repeated calls of the query builder of gcpbill.py on one object.        *)
(***************************************************************************)
MaxCalls == 3

\* Lines 227-235 of gcpbill.py: the text of the grouping expression.
group_fields(group_by) ==
    IF group_by = "service" THEN "service.description"
    ELSE IF group_by = "project" THEN "project.id"
    ELSE IF group_by = "day" THEN "DATE(usage_start_time)"
    ELSE IF group_by = "month" THEN "FORMAT_DATE(\"%Y-%m\", usage_start_time)"
    ELSE "service.description"

\* Mutant of build_cost_query: the grouping of the first call on the object
\* is kept for the later calls.
build_cost_query_cached(earlier, table_id, start_date, end_date, project_filter, group_by) ==
    LET g == IF earlier = <<>> THEN group_by ELSE earlier[1].args.group_by
    IN  [ group_field |-> group_fields(g),
          query |-> BuildQuery("gcpbill", table_id, start_date, end_date,
                               project_filter, g) ]

\* Lines 227-253 of gcpbill.py: group_fields is a dict literal of the call and
\* the text is built from the arguments; nothing of the object or of an
\* earlier call is read.
build_cost_query(earlier, table_id, start_date, end_date, project_filter, group_by) ==
    [ group_field |-> group_fields(group_by),
      query |-> BuildQuery("gcpbill", table_id, start_date, end_date,
                           project_filter, group_by) ]

BuilderArgs ==
    [ table_id : {export_table}, start_date : {D1}, end_date : {D2, D3},
      project_filter : {None}, group_by : GcpbillGroupBy ]

RepeatInit ==
    /\ DetectIdle
    /\ CategoryIdle
    /\ DiagIdle
    /\ RunIdle
    /\ SetupIdle
    /\ table_rows = <<>>
    /\ q_in = <<>>
    /\ q_out = <<>>
    /\ q_pc = "call"

\* One more call on the same object; q_out is the history of the calls.
BuildAgain ==
    /\ q_pc = "call" /\ Len(q_out) < MaxCalls
    /\ \E a \in BuilderArgs :
         /\ q_in' = a
         /\ q_out' = Append(q_out,
                [ args |-> a,
                  built |-> build_cost_query(q_out, a.table_id, a.start_date, a.end_date,
                                             a.project_filter, a.group_by) ])
    /\ UNCHANGED <<table_rows, q_pc, detectVars, categoryVars, diag, run, setup>>

RepeatNext == BuildAgain

SpecRepeat == RepeatInit /\ [][RepeatNext]_vars

RECURSIVE SelectCalls(_, _)
SelectCalls(calls, S) ==
    IF calls = <<>> THEN <<>>
    ELSE IF calls[1] \in S THEN <<calls[1]>> \o SelectCalls(Tail(calls), S)
    ELSE SelectCalls(Tail(calls), S)

\* The calls of get_costs_from_bigquery of gcpbill.py after detection, in the
\* order of the code: creation time, row count, coverage, cost query.
StepsAfterDetect == <<"get_table", "query COUNT", "query MIN MAX", "query costs">>

IsPrefix(s, t) == Len(s) <= Len(t) /\ s = SubSeq(t, 1, Len(s))

\* C20: in a run of gcpbill.py the calls of get_costs_from_bigquery come in
\* the order detection, creation time, row count, coverage, cost query; the
\* cost query is issued only when detection found a table and the row count
\* was fetched and is above zero; in every other case the result is the empty
\* list and no cost query is issued, whether or not the creation time could
\* be fetched.
C20_StepOrderAndGate ==
    (run # <<>> /\ run.script = "gcpbill") =>
        LET after == SelectCalls(run.calls, QueryCalls)
            has_rows == "query COUNT" \notin run.failed /\ Len(run.rows) > 0
        IN  /\ IsPrefix(after, StepsAfterDetect)
            /\ \A i, j \in 1..Len(run.calls) :
                 (run.calls[i] \in QueryCalls /\ run.calls[j] \in {"list_datasets", "list_tables"})
                   => j < i
            /\ after # <<>> => run.table_id # None
            /\ "query costs" \in SeqToSet(run.calls) => (run.table_id # None /\ has_rows)
            /\ "query MIN MAX" \in SeqToSet(run.calls) => has_rows
            /\ (run.pc \in {"output", "exit"} /\ run.args.costs /\ run.exit_code # 1
                  /\ (run.table_id = None \/ ~has_rows))
                 => ("query costs" \notin SeqToSet(run.calls) /\ run.costs = <<>>)

\* A run of gcpbill.py in which the creation time could not be fetched, the
\* table has rows, and all four steps after detection were taken, the cost
\* query returning rows.
C20_Witness ==
    /\ run # <<>> /\ run.script = "gcpbill"
    /\ "get_table" \in run.failed
    /\ SelectCalls(run.calls, QueryCalls) = StepsAfterDetect
    /\ run.costs # <<>>

\* A run of gcpbill.py in which the creation time was fetched, the row count
\* is zero, and the call returned without the coverage check and the cost
\* query.
C20_WitnessNoRows ==
    /\ run # <<>> /\ run.script = "gcpbill"
    /\ run.creation_info # None /\ run.rows = <<>> /\ run.failed = {}
    /\ SelectCalls(run.calls, QueryCalls) = <<"get_table", "query COUNT">>
    /\ run.pc = "exit" /\ run.costs = <<>>

\* check_datasets_and_tables has returned after scanning a non-empty list of
\* datasets.
ScanReturned == Visited("DetectExportHealth") /\ diag.ds # <<>>

\* C21: when check_datasets_and_tables has returned after scanning a non-empty
\* list of datasets, billing_export_found is true exactly when billing_tables
\* is non-empty, and 'No billing export tables found' and the 'not configured'
\* verdict appear only when no export table was recorded.
C21_FoundIffRecorded ==
    ScanReturned
        => /\ diag.billing_export_found <=> diag.billing_tables # <<>>
           /\ "No billing export tables found" \in diag.out => diag.billing_tables = <<>>
           /\ (\E k \in 1..Len(diag.verdicts) : diag.verdicts[k] = <<"not configured">>)
                => diag.billing_tables = <<>>

\* The direction of C21 the code keeps: the flag is set only when a table was
\* recorded.
C21_FoundImpliesRecorded ==
    ScanReturned => (diag.billing_export_found => diag.billing_tables # <<>>)

(***************************************************************************)
(* The account id printed by check_bigquery.py, handed to the viewer.      *)
(***************************************************************************)
\* Blocks of six characters.
IdBlocks ==
    { <<"0","1","2","3","4","5">>, <<"A","B","C","D","E","F">>, <<"0","0","0","0","0","0">> }

\* Billing account ids of the form XXXXXX-XXXXXX-XXXXXX.
FullAccountIds == { a \o <<"-">> \o b \o <<"-">> \o c : a \in IdBlocks, b \in IdBlocks, c \in IdBlocks }

\* The export table the provider names after the account.
export_table_of(billing_account_id) ==
    gcp_billing_export_v1_ \o Replace(billing_account_id, "-", "_")

RoundTripInit ==
    /\ CategoryIdle
    /\ QueryIdle
    /\ DiagIdle
    /\ RunIdle
    /\ SetupIdle
    /\ \E A \in FullAccountIds, rows \in {1, 5} :
         /\ d_in = [account |-> A, rows |-> rows, printed |-> None]
         /\ datasets \in { << [dataset_id |-> "billing_export", tables |-> t] >> :
                             t \in { << export_table_of(A) >>,
                                     << events_table, export_table_of(A) >>,
                                     << export_table_of(A), events_table >> } }
    /\ d_out = Pending
    /\ d_pc = "recommend"

\* provide_recommendations for the export table with data: the command line
\* it prints holds formatted_id of the table.
PrintCommand ==
    /\ d_pc = "recommend"
    /\ LET bt == [dataset |-> "billing_export", table |-> export_table_of(d_in.account),
                  rows |-> d_in.rows, age |-> WaitHours * SecondsPerHour]
           d  == provide_recommendations([billing_export_found |-> TRUE,
                                          billing_tables |-> <<bt>>, verdicts |-> <<>>])
       IN  d_in' = [d_in EXCEPT !.printed = d.verdicts[1][2]]
    /\ d_pc' = "detect"
    /\ UNCHANGED <<datasets, d_out, categoryVars, queryVars, diag, run, setup>>

\* gcp-bill-viewer.py --costs --billing-account <the printed value>:
\* detect_bigquery_export with every listing succeeding.
DetectPrinted ==
    /\ d_pc = "detect"
    /\ d_out' = detect_bigquery_export("viewer", datasets, d_in.printed, FALSE, 0)
    /\ d_pc' = "done"
    /\ UNCHANGED <<datasets, d_in, categoryVars, queryVars, diag, run, setup>>

RoundTripNext == PrintCommand \/ DetectPrinted

SpecRoundTrip == RoundTripInit /\ [][RoundTripNext]_vars

\* C22: for every account id A of the form XXXXXX-XXXXXX-XXXXXX whose export
\* table has data, the --billing-account value printed by
\* provide_recommendations is A, and the viewer's detection run with the
\* printed value finds that table.
C22_RoundTrip ==
    /\ d_pc \in {"detect", "done"} => d_in.printed = d_in.account
    /\ d_pc = "done"
         => d_out.value = <<project_id, "billing_export", export_table_of(d_in.account)>>

\* What the code prints for such an id: the twenty characters of A cut after
\* the sixth and the twelfth and joined with two more dashes.
C22_PrintedDashes ==
    d_pc \in {"detect", "done"}
        => /\ d_in.printed = SubSeq(d_in.account, 1, 6) \o <<"-">>
                             \o SubSeq(d_in.account, 7, 12) \o <<"-">>
                             \o SubSeq(d_in.account, 13, 20)
           /\ d_pc = "done" => d_out.value = None

\* provide_recommendations has run.
Recommended == diag.pc = "Finish" \/ (diag.pc = "exit" /\ Visited("Recommend") /\ diag.exit_code = 0)

\* The statuses check_billing_export_configuration printed.
SomeStatus(st) == \E k \in 1..Len(diag.statuses) : diag.statuses[k] = st

\* The verdict agrees with the printed statuses, and it is the only one.
VerdictAgrees ==
    /\ Len(diag.statuses) = Len(diag.billing_tables)
    /\ Len(diag.verdicts) = 1
    /\ diag.verdicts[1][1] \in {"working", "waiting for data", "no data after 24+ hours"}
    /\ diag.verdicts[1][1] = "working" <=> SomeStatus("working")
    /\ diag.verdicts[1][1] = "waiting for data"
         <=> (~SomeStatus("working") /\ SomeStatus("waiting"))
    /\ diag.verdicts[1][1] = "no data after 24+ hours"
         <=> \A k \in 1..Len(diag.statuses) : diag.statuses[k] = "misconfigured"

\* C23: when at least one export table was found, provide_recommendations
\* prints exactly one of the three verdicts, and it agrees with the per-table
\* statuses: working iff some table is working, waiting iff none is working
\* and some table is waiting, no data after 24+ hours iff every table is empty
\* with an age of 24 hours or more.
C23_VerdictAgreesWithStatuses ==
    (Recommended /\ diag.billing_tables # <<>>) => VerdictAgrees

\* The same in the runs in which billing_export_found is still true when
\* check_datasets_and_tables returns.
C23_VerdictWhenFlagSet ==
    (Recommended /\ diag.billing_export_found) => VerdictAgrees

\* Two tables recorded, the flag true, one waiting and one empty after 24
\* hours: the verdict is 'waiting for data'.
C23_FlagSetCase ==
    /\ Recommended /\ diag.billing_export_found
    /\ diag.statuses = <<"misconfigured", "waiting">>
    /\ diag.verdicts = << <<"waiting for data">> >>

\* C24: "Dataset '<name>' has been deleted." is printed only in runs in which
\* the delete_dataset call succeeded; when the deletion fails the error is
\* reported and the run does not state that the dataset has been deleted.
C24_DeletedOnlyWhenDeleted ==
    setup # <<>> =>
        /\ "Dataset has been deleted." \in setup.out
             => /\ CallsOf(setup, {"delete_dataset"}) # {}
                /\ "delete_dataset" \notin setup.failed
        /\ "delete_dataset" \in setup.failed
             => /\ "Error deleting dataset" \in setup.out
                /\ "Dataset has been deleted." \notin setup.out

\* The part of C24 the code keeps: a failed deletion is reported, and the
\* closing message is printed only in runs with --delete-dataset.
C24_FailureReported ==
    setup # <<>> =>
        /\ "delete_dataset" \in setup.failed => "Error deleting dataset" \in setup.out
        /\ "Dataset has been deleted." \in setup.out
             => (setup.args.delete_dataset /\ CallsOf(setup, {"delete_dataset"}) # {})

\* The steps of a --setup run, in the order of main() and setup_export().
SetupOrder ==
    <<"start", "authenticate", "verify_access", "create_dataset", "instructions",
      "verify_table">>

\* C25: in a --setup run the steps are taken in order; dataset creation is
\* attempted only after the access check succeeded, the manual instructions
\* are printed only after dataset creation succeeded; a failed access check or
\* dataset creation ends the run with code 1 and no later step; the final
\* verification never aborts the run, whether it fails or finds no table;
\* --setup without --project ends with code 1 before authentication and
\* before any provider call.
C25_StepsOrderedAndGated ==
    (setup # <<>> /\ setup.args.setup) =>
        LET s == setup
            created == CallsOf(s, {"create_dataset"})
        IN  /\ IsPrefix(s.visited, SetupOrder)
            /\ created # {} => ("Project verified" \in s.out /\ "list_datasets" \notin s.failed
                                /\ \A k \in created : k > 1 /\ s.calls[1].op = "list_datasets")
            /\ "REQUIRED MANUAL STEP" \in s.out
                 => ("Dataset created/verified" \in s.out /\ "create_dataset" \notin s.failed
                     /\ created # {})
            /\ "list_datasets" \in s.failed
                 => (s.pc = "exit" /\ s.exit_code = 1 /\ Len(s.calls) = 1
                     /\ s.visited = SubSeq(SetupOrder, 1, 3))
            /\ "create_dataset" \in s.failed
                 => (s.pc = "exit" /\ s.exit_code = 1 /\ Len(s.calls) = 2
                     /\ s.visited = SubSeq(SetupOrder, 1, 4) /\ s.cloud = s.cloud0)
            /\ (s.pc = "exit" /\ s.visited = SetupOrder)
                 => (s.exit_code = 0 /\ "=== Setup Information ===" \in s.out)
            /\ s.args.project = None
                 => (s.pc = "start"
                     \/ (s.pc = "exit" /\ s.exit_code = 1 /\ s.visited = <<"start">>
                         /\ s.calls = <<>> /\ s.env_in_default = s.env0
                         /\ s.out = {"Error: --project is required for --setup"}))

\* A --setup run went through all steps, the final listing failed, and the
\* run ended with code 0.
C25_Witness ==
    /\ setup # <<>> /\ setup.args.setup
    /\ setup.visited = SetupOrder
    /\ "Could not verify table creation" \in setup.out
    /\ setup.pc = "exit" /\ setup.exit_code = 0

\* --setup without --project has ended with code 1.
C25_WitnessNoProject ==
    /\ setup # <<>> /\ setup.args.setup /\ setup.args.project = None
    /\ setup.pc = "exit" /\ setup.exit_code = 1

(***************************************************************************)
(* The script run a second time with the same arguments.                   *)
(***************************************************************************)
\* After a run that ended with code 0 the user runs the same command again,
\* on the provider state the first run left.
RunAgain ==
    /\ setup # <<>> /\ setup.pc = "exit" /\ setup.exit_code = 0 /\ setup.run_no = 1
    /\ setup' = SetupRun(setup.args, setup.cloud, setup.env, 2, Some(setup.cloud))
    /\ UNCHANGED <<detectVars, categoryVars, queryVars, diag, run>>

TwiceNext == SetupNext \/ RunAgain

SpecTwice == SetupInit /\ [][TwiceNext]_vars

\* The dataset the run is about.
TargetPath(s) ==
    << IF s.args.project = None THEN "proj" ELSE s.args.project[1], s.args.dataset >>

\* C26: a second run of setup_export with the same project and dataset is not
\* refused because the dataset exists, and its calls leave the dataset and its
\* tables as the first run left them; a second run of destroy_export with
\* --delete-dataset is not refused because the dataset is gone, and leaves
\* the dataset the first run deleted absent and every other dataset as it
\* was.  Without a fault of the provider the second run ends with code 0.
C26_SecondRunIdempotent ==
    (setup # <<>> /\ setup.run_no = 2) =>
        LET s == setup
            first == s.cloud1[1]
            path == TargetPath(s)
        IN  /\ "create_dataset Conflict" \notin s.failed
            /\ "delete_dataset NotFound" \notin s.failed
            /\ (s.pc = "exit" /\ s.failed = {}) => s.exit_code = 0
            /\ s.args.setup
                 => /\ first[path] # None
                    /\ s.cloud \in {first, link_export(first, path)}
                    /\ s.pc \in {"start", "authenticate", "verify_access", "create_dataset",
                                 "instructions"} => s.cloud = first
            /\ (~s.args.setup /\ s.args.delete_dataset)
                 => /\ first[path] = None => s.cloud = first
                    /\ (s.pc = "exit" /\ s.failed = {}) => s.cloud[path] = None
                    /\ \A p \in DatasetPaths \ {path} : s.cloud[p] = first[p]

\* setup_export has been run twice on a dataset that holds the export table
\* after the first run; the second run created nothing and ended with code 0.
C26_Witness ==
    /\ setup # <<>> /\ setup.run_no = 2 /\ setup.args.setup
    /\ setup.pc = "exit" /\ setup.exit_code = 0
    /\ setup.cloud1[1][TargetPath(setup)] = Some({provider_export_table})
    /\ setup.cloud = setup.cloud1[1]
    /\ CallsOf(setup, {"create_dataset"}) # {}

\* destroy_export --delete-dataset has been run twice; the second deletion
\* found no dataset and ended with code 0.
C26_WitnessDestroy ==
    /\ setup # <<>> /\ setup.run_no = 2 /\ ~setup.args.setup /\ setup.args.delete_dataset
    /\ setup.pc = "exit" /\ setup.exit_code = 0 /\ setup.failed = {}
    /\ CallsOf(setup, {"delete_dataset"}) # {}
    /\ setup.cloud1[1][TargetPath(setup)] = None
    /\ setup.cloud = setup.cloud1[1]

\* _authenticate has been called.
AuthenticateCalled ==
    \E k \in 1..Len(setup.visited) : setup.visited[k] = "authenticate"

\* C27: after _authenticate, on every exit path (default() returned, sys.exit(1)
\* after a credentials error, another exception), the environment variable
\* GOOGLE_APPLICATION_CREDENTIALS is set or unset as before the call, with the
\* same value; while default() ran it was unset.
C27_EnvRestored ==
    setup # <<>> =>
        /\ setup.env = setup.env0
        /\ AuthenticateCalled => setup.env_in_default = None

\* The variable was set, default() raised an exception that is not caught,
\* and the variable has its value again.
C27_Witness ==
    /\ setup # <<>> /\ AuthenticateCalled
    /\ setup.traceback /\ "authenticate" \in setup.failed
    /\ setup.env0 = Some("/key.json") /\ setup.env = Some("/key.json")
    /\ setup.env_in_default = None

\* The variable was set to the empty string, authentication failed with
\* sys.exit(1), and the variable is set to the empty string again.
C27_WitnessExit ==
    /\ setup # <<>> /\ AuthenticateCalled
    /\ ~setup.traceback /\ "authenticate" \in setup.failed /\ setup.exit_code = 1
    /\ setup.env0 = Some("") /\ setup.env = Some("")

(***************************************************************************)
(* _check_date_range_coverage of gcpbill.py as a function of the requested *)
(* dates and of the dates the table holds: the run stands at the coverage  *)
(* check with every combination of start, end, min_date and max_date among *)
(* the last days before today.                                             *)
(***************************************************************************)
MaxRangeDays == 3

RangeDays == { days_before(Today, n) : n \in 0..MaxRangeDays }

\* The viewer as get_costs_from_bigquery reaches "date_range_info =
\* self._check_date_range_coverage(table_id, start_date, end_date)": the
\* table holds rows whose first date is lo and whose last date is hi.
CoverageRun(start, end, lo, hi, debug) ==
    [ script |-> "gcpbill",
      args |-> [ list_accounts |-> FALSE, list_projects |-> FALSE, costs |-> TRUE,
                 billing_account |-> None, project |-> None,
                 start_date |-> strftime(start), end_date |-> strftime(end),
                 group_by |-> "service", format |-> "table", debug |-> debug ],
      pc |-> "coverage", exit_code |-> -1, traceback |-> FALSE, out |-> {}, shown |-> <<>>,
      calls |-> <<"query COUNT">>, failed |-> {},
      start_date |-> strftime(start), end_date |-> strftime(end),
      table_id |-> Some(<<"t">>),
      rows |-> << RunRow(TIMESTAMP(lo), ComputeKind), RunRow(TIMESTAMP(hi) + 1, VertexKind) >>,
      creation_info |-> None, date_range_info |-> None, fetched |-> 0, costs |-> <<>> ]

CoverageInit ==
    /\ \E start \in RangeDays, end \in RangeDays, lo \in RangeDays, hi \in RangeDays,
          debug \in BOOLEAN :
         /\ ~DateLess(hi, lo)
         /\ run = CoverageRun(start, end, lo, hi, debug)
    /\ DetectIdle
    /\ CategoryIdle
    /\ QueryIdle
    /\ DiagIdle
    /\ SetupIdle

SpecCoverage == CoverageInit /\ [][RunCoverage]_vars

\* The coverage check has answered with the dates of the table.
CoverageAnswered ==
    /\ run # <<>> /\ run.pc = "query"
    /\ run.date_range_info # None
    /\ run.date_range_info[1].has_data

\* The day numbers of the requested dates and of the table's dates.
RequestedStartDay == days_from_civil(strptime(run.start_date))

RequestedEndDay == days_from_civil(strptime(run.end_date))

TableDays == { days_from_civil(DATE(run.rows[i].usage_start_time)) : i \in 1..Len(run.rows) }

\* The half-open range [start, end) of the cost query ("usage_start_time >=
\* TIMESTAMP(start) AND usage_start_time < TIMESTAMP(end)") holds no date of
\* [min_date, max_date].
RangeHoldsNoTableDate ==
    \A d \in RequestedStartDay..(RequestedEndDay - 1) :
        \A lo \in TableDays, hi \in TableDays : ~(lo <= d /\ d <= hi)

\* C28: _check_date_range_coverage reports outside_range = true exactly when
\* the requested half-open range [start, end) of the cost query contains no
\* date of the table's range [min_date, max_date], for every start, end,
\* min_date and max_date; the end date is exclusive, as in the query.
C28_OutsideIffDisjoint ==
    CoverageAnswered =>
        (run.date_range_info[1].outside_range <=> RangeHoldsNoTableDate)

\* C28, the part that holds: outside_range is true exactly when the end date
\* is before min_date or the start date is after max_date, so a reported
\* outside_range is never wrong, and an end date equal to min_date counts as
\* inside.
C28_OutsideWhenEndBeforeMin ==
    CoverageAnswered =>
        /\ run.date_range_info[1].outside_range
             <=> (\A d \in TableDays : RequestedEndDay < d)
                 \/ (\A d \in TableDays : d < RequestedStartDay)
        /\ run.date_range_info[1].outside_range => RangeHoldsNoTableDate

\* C28: the end date equals the table's first date and the start date is
\* earlier, so the cost query can select no row of the table.
C28_EndIsMinDate ==
    /\ CoverageAnswered
    /\ \A d \in TableDays : RequestedEndDay <= d
    /\ RequestedEndDay \in TableDays
    /\ RequestedStartDay < RequestedEndDay
    /\ ~run.date_range_info[1].outside_range

\* The advice printed with "Table exists but contains no data.".
NoDataAdvice ==
    { "Billing data export may not be configured",
      "Data should be available in ~ hours",
      "It's been over 24 hours since table creation." }

\* C29: gcpbill.py reports "Table exists but contains no data." (with the
\* waiting or over-24-hours advice) only when the row count of the export
\* table is zero: a row-count query that fails is not reported as an empty
\* table and does not suppress the cost query for a table that has rows.
C29_NoDataOnlyWhenEmpty ==
    (run # <<>> /\ run.script = "gcpbill") =>
        /\ "Table exists but contains no data." \in run.out
             => (Len(run.rows) = 0 /\ "query COUNT" \notin run.failed)
        /\ (run.pc \in {"output", "exit"} /\ "query COUNT" \in run.failed /\ Len(run.rows) > 0)
             => "query costs" \in SeqToSet(run.calls)

\* C29, the part that holds: the message comes with one advice and only after
\* the row-count query, when that query failed or counted no row; a counted
\* table with rows is never reported empty.
C29_NoDataWhenEmptyOrFailed ==
    (run # <<>> /\ run.script = "gcpbill") =>
        ("Table exists but contains no data." \in run.out
           => /\ "query COUNT" \in SeqToSet(run.calls)
              /\ Len(run.rows) = 0 \/ "query COUNT" \in run.failed
              /\ run.out \cap NoDataAdvice # {}
              /\ "query costs" \notin SeqToSet(run.calls))

\* C29: the row-count query failed on a table that has rows, and the run
\* reported an empty table and ended without the cost query.
C29_FailedCountReportedEmpty ==
    /\ run # <<>> /\ run.script = "gcpbill"
    /\ run.pc = "exit"
    /\ "query COUNT" \in run.failed
    /\ Len(run.rows) > 0
    /\ "Table exists but contains no data." \in run.out
    /\ "query costs" \notin SeqToSet(run.calls)

====
